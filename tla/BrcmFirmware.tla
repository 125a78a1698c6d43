---------------------------- MODULE BrcmFirmware ----------------------------
(***************************************************************************)
(* Loading the firmware files of a Wi-Fi chip (firmware.c): the request    *)
(* that asks for one file after the other, the board's own before the      *)
(* chip's, the first one by a callback and the others in that callback,    *)
(* and the parser that turns the board's configuration text (NVRAM) into   *)
(* the image the firmware reads.                                           *)
(*                                                                         *)
(* Text is a sequence of tokens.  A token is one character, or one of the  *)
(* few words the code compares with: "rev" is boardrev, "mac" macaddr,     *)
(* "raw" RAW1, "dev" devpath, "here" and "there" the PCIe paths of this    *)
(* and of another device.  Width gives their bytes, so lengths are exact.  *)
(***************************************************************************)
EXTENDS Integers, Sequences, FiniteSets
LOCAL INSTANCE SequencesExt
LOCAL INSTANCE FiniteSetsExt

CONSTANTS Docs,        \* NVRAM texts: records [lines, ends, whole]
          FwRequests,  \* what bus code asks for: sequences of [kind, opt]
          BoardTypes,  \* at most so many board names
          MaxNvram,    \* BRCMF_FW_MAX_NVRAM_SIZE
          FwFaults     \* at most so many failed allocations and submissions

VARIABLES rq,    \* struct brcmf_fw and its request
          np,    \* struct nvram_parser
          doc    \* the NVRAM text being read
fwVars == <<rq, np, doc>>

----------------------------------------------------------------------------
(* The text.                                                               *)

Width(t) == CASE t = "rev" -> 8 [] t \in {"mac", "dev"} -> 7 [] t = "raw" -> 4
              [] t \in {"here", "there"} -> 9 [] t = "0xff" -> 4
              [] t = "addr" -> 17 [] OTHER -> 1
Bytes(s) == FoldLeft(LAMBDA a, t : a + Width(t), 0, s)

\* The file: every line with its own end, the last one possibly without.
Text(d) == FlattenSeq([i \in DOMAIN d.lines |->
    IF i < Len(d.lines) \/ d.whole THEN d.lines[i] \o d.ends[i] ELSE d.lines[i]])

IsNvramChar(c) == c \notin {"nl", "cr", "nul", "hash", "bad"}
IsWhitespace(c) == c \in {"sp", "cr", "nl"}

----------------------------------------------------------------------------
(* The parser: one handler for each state, called once for each step.      *)

\* brcmf_init_nvram_parser: room for the text, the two properties that may be
\* added, an extra 0, the padding and the length.
InitParser(d, strip) ==
    [st |-> "idle", pos |-> 1, entry |-> 1, out |-> <<>>, len |-> 0,
     v1 |-> FALSE, v2 |-> FALSE, rev |-> FALSE, mac |-> strip, wild |-> FALSE,
     size |-> Min({Bytes(Text(d)), MaxNvram}) + 14 + 26 + 8, total |-> 0]

NoParser == [InitParser([lines |-> <<>>, ends |-> <<>>, whole |-> TRUE], FALSE)
             EXCEPT !.st = "off"]

HandleIdle(p, c) ==
    CASE c \in {"nl", "hash"} -> [p EXCEPT !.st = "comment"]
      [] IsWhitespace(c) \/ c \in {"nul", "bad"} -> [p EXCEPT !.pos = @ + 1]
      [] OTHER -> [p EXCEPT !.entry = p.pos, !.st = "key"]

HandleKey(p, c, first) ==
    CASE c = "eq" ->
           [p EXCEPT !.pos = @ + 1,
                     !.st = IF first = "raw" \/ (p.mac /\ first = "mac")
                            THEN "comment" ELSE "value",
                     !.v1 = @ \/ first = "dev",
                     !.v2 = @ \/ first \in {"here", "there"},
                     !.rev = @ \/ first = "rev"]
      [] ~IsNvramChar(c) \/ c = "sp" -> [p EXCEPT !.st = "comment"]
      [] OTHER -> [p EXCEPT !.pos = @ + 1]

HandleValue(p, c, kv) ==
    CASE IsNvramChar(c) -> [p EXCEPT !.pos = @ + 1]
      [] p.len + Bytes(kv) + 1 >= MaxNvram -> [p EXCEPT !.st = "end"]
      [] OTHER -> [p EXCEPT !.out = Append(@, kv), !.len = @ + Bytes(kv) + 1,
                            !.st = "idle"]

\* To the next newline, unless a 0 comes before it: strchr looks no further.
\* A 0 follows the text at the latest.
HandleComment(p, text) ==
    LET eoc == Min({i \in p.pos .. Len(text) : text[i] \in {"nl", "nul"}}
                   \cup {Len(text) + 1})
    IN [p EXCEPT !.pos = eoc + 1, !.st = "idle"]

Handle(p, text) ==
    CASE p.st = "idle" -> HandleIdle(p, text[p.pos])
      [] p.st = "key" -> HandleKey(p, text[p.pos], text[p.entry])
      [] p.st = "value" ->
           HandleValue(p, text[p.pos], SubSeq(text, p.entry, p.pos - 1))
      [] p.st = "comment" -> HandleComment(p, text)

\* The byte at which entry k of the output starts.
Offset(out, k) == FoldLeft(LAMBDA a, e : a + Bytes(e) + 1, 0, SubSeq(out, 1, k - 1))
OutBytes(out) == Offset(out, Len(out) + 1)

StartsWith(e, s) == Len(e) >= Len(s) /\ SubSeq(e, 1, Len(s)) = s
Behind(out, prefix) ==
    LET ours == SelectSeq(out, LAMBDA e : StartsWith(e, prefix))
    IN [i \in DOMAIN ours |-> SubSeq(ours[i], Len(prefix) + 1, Len(ours[i]))]
HasRev(out) == \E i \in DOMAIN out : StartsWith(out[i], <<"rev">>)

\* What a copy for one device leaves; rev was reset before.
Copied(p, out) == [p EXCEPT !.out = out, !.len = OutBytes(out),
                            !.rev = HasRev(out), !.size = p.len + 8]

\* brcmf_fw_strip_multi_v1: the first devpath line of this device names the
\* id its entries start with.  The search stops 19 bytes before the end.
StripMultiV1(p) ==
    LET mine == {k \in DOMAIN p.out :
                    /\ Offset(p.out, k) < p.len - 19
                    /\ StartsWith(p.out[k], <<"dev">>) /\ Len(p.out[k]) >= 4
                    /\ SubSeq(p.out[k], 3, 4) = <<"eq", "here">>}
    IN IF p.len < 25 \/ mine = {}
       THEN [p EXCEPT !.len = 0, !.rev = FALSE]
       ELSE Copied(p, Behind(p.out, <<p.out[Min(mine)][2], ":">>))

\* brcmf_fw_strip_multi_v2: with fewer than 9 bytes the unsigned bound of the
\* loop wraps and it leaves the buffer.
StripMultiV2(p) ==
    IF p.len < 9 THEN [p EXCEPT !.wild = TRUE, !.len = 0]
    ELSE Copied(p, Behind(p.out, <<"here">>))

AddDefaults(p) ==
    IF p.rev THEN p
    ELSE [p EXCEPT !.out = Append(@, <<"rev", "eq", "0xff">>), !.len = @ + 14]
AddMacaddr(p) ==
    IF ~p.mac THEN p
    ELSE [p EXCEPT !.out = Append(@, <<"mac", "eq", "addr">>), !.len = @ + 26]

MutStrip(p) == CASE p.v1 -> [StripMultiV1(p) EXCEPT !.rev = @ \/ p.rev]
                 [] ~p.v1 /\ p.v2 -> [StripMultiV2(p) EXCEPT !.rev = @ \/ p.rev]
                 [] OTHER -> p
\* The rest of brcmf_fw_nvram_strip: one device, the additions, padding and
\* the length token; no entry gives no image.
Strip(p) == CASE p.v1 -> StripMultiV1([p EXCEPT !.rev = FALSE])
              [] ~p.v1 /\ p.v2 -> StripMultiV2([p EXCEPT !.rev = FALSE])
              [] OTHER -> p

RoundUp4(n) == 4 * ((n + 3) \div 4)
NvramStrip(p) ==
    LET s == Strip(p)
        a == AddMacaddr(AddDefaults(s))
    IN IF s.len = 0 THEN [s EXCEPT !.st = "stop", !.out = <<>>]
       ELSE [a EXCEPT !.st = "stop", !.total = RoundUp4(a.len + 1) + 4]

----------------------------------------------------------------------------
(* The request.                                                            *)

\* pc: what runs next.  fw: the file handed to the current item, NoFile if
\* there is none.  open: files and images that have to be released.  held:
\* what the items hold.  tried: per item the files asked for, 0 for the
\* chip's own and b for the one of board b.
NoFile == <<>>
FwInit ==
    /\ rq \in {[pc |-> "start", req |-> q, boards |-> b, cur |-> 1, board |-> 0,
                fw |-> NoFile, open |-> {}, held |-> [i \in DOMAIN q |-> NoFile],
                tried |-> [i \in DOMAIN q |-> <<>>], ret |-> "ok", calls |-> 0,
                faults |-> 0, quit |-> FALSE] :
                  q \in FwRequests, b \in 0 .. BoardTypes}
    /\ np = NoParser
    /\ doc = [lines |-> <<>>, ends |-> <<>>, whole |-> TRUE]

Item == rq.req[rq.cur]
Spare == rq.faults < FwFaults
Spent(r) == [r EXCEPT !.faults = @ + 1]

\* brcm_alt_fw_path, brcmf_fw_get_firmwares and the next try of
\* brcmf_fw_request_done_alt_path: the board's name, or the chip's own file
\* when there is no further board or no memory for the path.
AskBoard(r, b) == [r EXCEPT !.pc = "alt", !.board = b,
                            !.tried[1] = Append(@, b)]
AskChip(r) == [r EXCEPT !.pc = "wait", !.tried[1] = Append(@, 0)]

\* The ways a try goes on: board b if there is one, else the chip's file; out
\* of memory for the path the chip's file; a failed submission ends the
\* request with nothing.
Asks(r, b) ==
    LET next == IF b <= r.boards THEN AskBoard(r, b) ELSE AskChip(r)
    IN {next} \cup
       (IF ~Spare THEN {} ELSE {Spent([next EXCEPT !.pc = "done", !.quit = TRUE])}
            \cup (IF b <= r.boards THEN {Spent(AskChip(r))} ELSE {}))

GetFirmwares ==
    /\ rq.pc = "start"
    /\ \/ rq.req = <<>> /\ rq' = [rq EXCEPT !.pc = "over", !.ret = "einval"]
       \/ rq.req # <<>> /\ Spare
          /\ rq' = Spent([rq EXCEPT !.pc = "over", !.ret = "enomem"])
       \/ rq.req # <<>> /\ rq' \in Asks(rq, 1)
    /\ UNCHANGED <<np, doc>>

Found(r, f) == [r EXCEPT !.fw = f, !.open = @ \cup {f}, !.pc = "done"]

\* The callback for a board's file.
RequestDoneAltPath ==
    /\ rq.pc = "alt"
    /\ \/ rq' = Found(rq, <<1, rq.board>>)
       \/ rq' \in Asks(rq, rq.board + 1)
    /\ UNCHANGED <<np, doc>>

\* The callback for the chip's file.
RequestDone ==
    /\ rq.pc = "wait"
    /\ \/ rq' = Found(rq, <<1, 0>>)
       \/ rq' = [rq EXCEPT !.pc = "done"]
    /\ UNCHANGED <<np, doc>>

\* brcmf_fw_request_firmware for the items after the first: each board's
\* file, then the chip's.
RequestFirmware ==
    /\ rq.pc = "next"
    /\ LET b == rq.board
           r == [rq EXCEPT !.tried[rq.cur] = Append(@, b)]
           onward == IF b = 0 THEN [r EXCEPT !.pc = "done"]
                     ELSE [r EXCEPT !.board = IF b < r.boards THEN b + 1 ELSE 0]
       IN \/ rq' = Found(r, <<rq.cur, b>>)
          \/ rq' = onward
          \/ b # 0 /\ Spare /\ rq' = Spent([rq EXCEPT !.board = 0])
    /\ UNCHANGED <<np, doc>>

\* brcmf_fw_free_request and the callback of the bus.
Held(r) == {r.held[i] : i \in DOMAIN r.held} \ {NoFile}
FreeRequest(r) == [r EXCEPT !.open = @ \ Held(r),
                            !.held = [i \in DOMAIN @ |-> NoFile]]
Finished(r, ret) ==
    [(IF ret = "ok" THEN r ELSE FreeRequest(r))
        EXCEPT !.pc = "over", !.ret = ret, !.calls = @ + 1]

\* The loop of brcmf_fw_request_done after an item: an optional one never
\* fails the request.
After(r, ret) ==
    CASE ret # "ok" /\ ~Item.opt -> Finished(r, ret)
      [] rq.cur = Len(rq.req) -> Finished(r, "ok")
      [] OTHER -> [r EXCEPT !.pc = "next", !.cur = @ + 1, !.fw = NoFile,
                            !.board = IF r.boards > 0 THEN 1 ELSE 0]

\* brcmf_fw_complete_request for a binary.
CompleteBinary ==
    /\ rq.pc = "done" /\ Item.kind = "binary"
    /\ rq' = IF rq.fw # NoFile
             THEN After([rq EXCEPT !.held[rq.cur] = rq.fw], "ok")
             ELSE After(rq, "enoent")
    /\ UNCHANGED <<np, doc>>

\* brcmf_fw_request_nvram_done: the file, or the flash of the board, or the
\* EFI variable; all are texts.  Without any there is no image.
CompleteNvram ==
    /\ rq.pc = "done" /\ Item.kind = "nvram"
    /\ \/ /\ \E d \in Docs, strip \in BOOLEAN :
                doc' = d /\ np' = InitParser(d, strip)
          /\ rq' = [rq EXCEPT !.pc = "parse"]
       \/ /\ \/ rq.fw # NoFile /\ Spare /\ rq' = Spent([rq EXCEPT !.pc = "nvram"])
             \/ rq.fw = NoFile /\ rq' = [rq EXCEPT !.pc = "nvram"]
          /\ UNCHANGED <<np, doc>>

\* One turn of the loop of brcmf_fw_nvram_strip.
ParseStep ==
    /\ rq.pc = "parse" /\ np.st # "end" /\ np.pos <= Len(Text(doc))
    /\ np' = Handle(np, Text(doc))
    /\ UNCHANGED <<rq, doc>>

ParseDone ==
    /\ rq.pc = "parse" /\ (np.st = "end" \/ np.pos > Len(Text(doc)))
    /\ np' = NvramStrip(np) /\ rq' = [rq EXCEPT !.pc = "nvram"]
    /\ UNCHANGED doc

\* The file is released, the image kept.
NvramDone ==
    /\ rq.pc = "nvram"
    /\ LET image == <<rq.cur, "image">>
           r == [rq EXCEPT !.open = @ \ {rq.fw}, !.fw = NoFile]
       IN rq' = IF np.st = "stop" /\ np.out # <<>>
                THEN After([r EXCEPT !.open = @ \cup {image},
                                     !.held[rq.cur] = image], "ok")
                ELSE After(r, "enoent")
    /\ np' = NoParser /\ UNCHANGED doc

FwNext == GetFirmwares \/ RequestDoneAltPath \/ RequestDone \/ RequestFirmware
          \/ CompleteBinary \/ CompleteNvram \/ ParseStep \/ ParseDone \/ NvramDone
FwSpec == FwInit /\ [][FwNext]_fwVars

----------------------------------------------------------------------------
(* What the image has to hold, line by line.                               *)

\* The assignment a line makes: <<>> for an empty line, a comment, a line
\* without a proper key, for the keys that are left out, and for a value
\* that nothing ends.
Assign(line, strip, ended) ==
    LET skip == {"sp", "cr", "bad"}
        from == {i \in DOMAIN line : line[i] \notin skip}
        body == IF from = {} THEN <<>> ELSE SubSeq(line, Min(from), Len(line))
        eqs  == {i \in DOMAIN body : body[i] = "eq"}
        stop == {i \in DOMAIN body : ~IsNvramChar(body[i])} \cup {Len(body) + 1}
        key  == SubSeq(body, 1, Min(eqs) - 1)
    IN IF \/ eqs = {} \/ Min(stop) < Min(eqs)
          \/ \E i \in DOMAIN key : key[i] = "sp"
          \/ body[1] = "raw" \/ (strip /\ body[1] = "mac")
          \/ ~ended /\ Min(stop) > Len(body)
       THEN <<>> ELSE SubSeq(body, 1, Min(stop) - 1)

Assigned(d, strip) ==
    SelectSeq([i \in DOMAIN d.lines |->
                 Assign(d.lines[i], strip, d.whole \/ i < Len(d.lines))],
              LAMBDA e : e # <<>>)
\* As many as fit.
Fitting(es) == Max({0} \cup {n \in DOMAIN es : OutBytes(SubSeq(es, 1, n)) < MaxNvram})
\* For one of several devices: the entries its devpath or its path selects.
ForDevice(es) ==
    LET paths == {i \in DOMAIN es : StartsWith(es[i], <<"dev">>)}
        ours  == {i \in paths : SubSeq(es[i], 3, 4) = <<"eq", "here">>}
    IN IF paths # {}
       THEN IF ours = {} THEN <<>> ELSE Behind(es, <<es[Min(ours)][2], ":">>)
       ELSE IF \E i \in DOMAIN es : es[i][1] \in {"here", "there"}
            THEN Behind(es, <<"here">>) ELSE es

\* A line that the parser takes note of by its key, and whose entry is lost:
\* the last one without an end, or the one that did not fit.  A devpath line
\* may also be too near the end to be searched.
Special == {"rev", "dev", "here", "there"}
CutOff(d, strip) ==
    LET es == Assigned(d, strip)
        n  == Fitting(es)
    IN \/ ~d.whole /\ \E i \in DOMAIN Last(d.lines) : Last(d.lines)[i] \in Special
       \/ n < Len(es) /\ es[n + 1][1] \in Special
       \/ n > 0 /\ es[n][1] = "dev"

\* Property NvramRight.  The image made of an NVRAM text (brcmf_fw_nvram_strip)
\* holds the assignments of the text's lines in their order, of this device
\* only when the text describes several, without the keys that are left out;
\* a board revision and, when the platform knows one, a MAC address are in it
\* exactly once.  An image for the only device stays within its buffer.
NvramRight ==
    np.st = "stop" =>
      LET es   == Assigned(doc, np.mac)
          want == ForDevice(SubSeq(es, 1, Fitting(es)))
          rev  == IF HasRev(want) THEN <<>> ELSE <<<<"rev", "eq", "0xff">>>>
          mac  == IF np.mac THEN <<<<"mac", "eq", "addr">>>> ELSE <<>>
      IN /\ CutOff(doc, np.mac) \/
               np.out = (IF want = <<>> THEN <<>> ELSE want \o rev \o mac)
         /\ ~np.v1 /\ ~np.v2 => np.total <= np.size
         /\ np.wild => CutOff(doc, np.mac)

\* The order in which the files of an item are asked for.
Order(r) == [i \in 1 .. r.boards + 1 |-> IF i <= r.boards THEN i ELSE 0]

\* Property RequestRight.  When a request is over (brcmf_fw_request_done) the
\* bus has been called once, or the request was refused at once; after a
\* success every item that is not optional is there and nothing but the
\* request's items is open, after a failure nothing is open.  Every item was
\* asked for in the order of the boards, and given up only after the chip's
\* own file was asked for.
RequestRight ==
    rq.pc = "over" =>
      /\ rq.calls = (IF rq.ret \in {"einval", "enomem"} THEN 0 ELSE 1)
      /\ rq.open = Held(rq)
      /\ rq.ret # "ok" => rq.open = {}
      /\ rq.ret = "ok" => \A i \in DOMAIN rq.req : rq.req[i].opt \/ rq.held[i] # NoFile
      /\ \A i \in DOMAIN rq.req :
           /\ rq.faults = 0 => IsPrefix(rq.tried[i], Order(rq))
           /\ rq.req[i].kind = "binary" /\ rq.tried[i] # <<>> /\ rq.ret = "ok"
                 /\ rq.held[i] = NoFile
              => Last(rq.tried[i]) = 0 \/ rq.quit
=============================================================================
