--------------------------- MODULE MCFthdCamera ---------------------------
(***************************************************************************)
(* Three parts of the camera driver that share no state, for one run of    *)
(* TLC: the life of fthd_private, the IOMMU table, and the frame sizes.    *)
(* The part chosen in the initial state is the one that takes steps, so    *)
(* the states are the sum of the parts' and not their product; what an     *)
(* invariant of one part says does not depend on the others.               *)
(***************************************************************************)
EXTENDS FthdLifecycle, TLC

CONSTANTS Buf, Entries, Page, Lists,   \* of FthdIommu
          Sensors, Widths, Heights     \* of FthdFormat

VARIABLES part,
          mObj, mTable, mBeside, mRagged,
          fSensor, fKnown, fFmt, fImage, fBuf, fCrop, fOut, fStreaming, fLate, fBlind, fBegun

M == INSTANCE FthdIommu WITH obj <- mObj, table <- mTable, beside <- mBeside, ragged <- mRagged

F == INSTANCE FthdFormat WITH
        sensor <- fSensor, known <- fKnown, fmt <- fFmt, image <- fImage, buf <- fBuf,
        crop <- fCrop, out <- fOut, streaming <- fStreaming, late <- fLate,
        blind <- fBlind, begun <- fBegun

mVars == <<mObj, mTable, mBeside, mRagged>>
fVars == <<fSensor, fKnown, fFmt, fImage, fBuf, fCrop, fOut, fStreaming, fLate, fBlind, fBegun>>

CameraInit ==
    /\ part \in {"life", "iommu", "format"}
    /\ Init /\ M!Init /\ F!Init
    /\ part # "format" => fKnown /\ fSensor = CHOOSE s \in Sensors : TRUE

LifeNext   == part = "life" /\ Next /\ UNCHANGED <<part, mVars, fVars>>
IommuNext  == part = "iommu" /\ M!Next /\ UNCHANGED <<part, vars, fVars>>
FormatNext == part = "format" /\ F!Next /\ UNCHANGED <<part, vars, mVars>>

CameraNext == LifeNext \/ IommuNext \/ FormatNext
CameraSpec == CameraInit /\ [][CameraNext]_<<part, vars, mVars, fVars>>

---------------------------------------------------------------------------
(* The IOMMU table maps exactly the pages of the live buffers, each page   *)
(* of them (iommu_allocate_sgtable, iommu_free).                           *)
TableRight == M!MapsLiveBuffers /\ M!WholeBufferMapped

(* The window fthd_start_channel computes is accepted by crop_set, has the *)
(* output's aspect ratio and is never enlarged, and a frame fits the       *)
(* buffer vb2 allocated for it (queue_setup, s_fmt).                       *)
FrameRight == F!WindowAccepted /\ F!ScalesDown /\ F!AspectKept /\ F!FrameFits

---------------------------------------------------------------------------
\* Half pages and up to two segments.
MCLists == {<<0>>, <<1>>, <<3>>, <<2, 1>>, <<2, 2>>, <<1, 2>>, <<2, 0>>}
\* The two sensors the code names, and one taller than wide.
MCSensors == {<<1280, 720>>, <<848, 588>>, <<480, 640>>}
Sym == Permutations(File) \cup Permutations(Buf)
===========================================================================
