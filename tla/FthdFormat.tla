---------------------------- MODULE FthdFormat ----------------------------
(***************************************************************************)
(* Frame sizes of the camera (fthd_v4l2.c, fthd_isp.c): the sensor's       *)
(* resolution as the firmware reports it, the format an application        *)
(* negotiates, the buffers vb2 allocates for it, and the crop window and   *)
(* output size fthd_start_channel sets when streaming starts.  Nothing     *)
(* ties the four together: a format may be set with buffers allocated.     *)
(*                                                                         *)
(* External: vb2, which asks queue_setup for a size and keeps the buffers  *)
(* until they are freed, and the firmware's answers.                       *)
(***************************************************************************)
EXTENDS Integers, FiniteSetsExt

CONSTANTS Sensors,   \* resolutions a sensor may have
          Widths, Heights   \* sizes applications ask for

VARIABLES
    sensor,     \* external: the sensor's resolution
    known,      \* sensor_width and sensor_height are recorded
    fmt,        \* dev_priv->fmt: width and height
    image,      \* sizeimage
    buf,        \* bytes of each allocated buffer (0: none)
    crop, out,  \* the window and the output size the firmware was given
    streaming,
    \* History.
    late,       \* the format was set while buffers were allocated
    blind,      \* the format was set before the sensor was known
    begun       \* late and blind when streaming started

vars == <<sensor, known, fmt, image, buf, crop, out, streaming, late, blind, begun>>

MaxWidth == 1280
MaxHeight == 720
MinWidth == 320
MinHeight == 240
NoRect == [x |-> 0, y |-> 0, w |-> 0, h |-> 0]

SensorWidth == IF known THEN sensor[1] ELSE MaxWidth
SensorHeight == IF known THEN sensor[2] ELSE MaxHeight

\* ALIGN(pix->width, 8).
Align(n) == (n + 7) - ((n + 7) % 8)

\* fthd_v4l2_adjust_format.
Adjust(w, h) == <<Align(Min({Max({w, MinWidth}), SensorWidth})),
                  Min({Max({h, MinHeight}), SensorHeight})>>
ImageSize(f) == 2 * f[1] * f[2]

\* & ~1u
Even(n) == n - (n % 2)

\* Mutant: the comparison is the wrong way round.
WiderInverted(f, s) == f[1] * s[2] < s[1] * f[2]
\* The output is wider than the sensor.
Wider(f, s) == f[1] * s[2] >= s[1] * f[2]

\* The window of fthd_start_channel, for output f and sensor s.
Window(f, s) ==
    LET cw == IF Wider(f, s) THEN s[1] ELSE (s[2] * f[1]) \div f[2]
        ch == IF Wider(f, s) THEN (s[1] * f[2]) \div f[1] ELSE s[2]
        w == Even(Min({cw, s[1]}))
        h == Min({ch, s[2]})
    IN  [x |-> (s[1] - w) \div 2, y |-> (s[2] - h) \div 2, w |-> w, h |-> h]

\* The checks of fthd_isp_cmd_channel_crop_set.
CropAccepted(r, k) ==
    /\ r.w > 0 /\ r.h > 0
    /\ k => r.x + r.w <= sensor[1] /\ r.y + r.h <= sensor[2]
    /\ ~(r.x % 2 = 1 /\ r.w % 2 = 1)

---------------------------------------------------------------------------
\* fthd_firmware_start's query, whose failure is not fatal, and the default
\* format of fthd_v4l2_register.
Init ==
    /\ sensor \in Sensors
    /\ known \in BOOLEAN
    /\ fmt = Adjust(SensorWidth, SensorHeight)
    /\ image = ImageSize(fmt)
    /\ buf = 0 /\ crop = NoRect /\ out = <<0, 0>> /\ streaming = FALSE
    /\ late = FALSE /\ blind = ~known /\ begun = [late |-> FALSE, blind |-> FALSE]

\* fthd_v4l2_ioctl_s_fmt_vid_cap.
SetFormat(w, h) ==
    /\ fmt' = Adjust(w, h)
    /\ image' = ImageSize(fmt')
    /\ late' = (late \/ (buf # 0 /\ image' # image))
    /\ blind' = ~known
    /\ UNCHANGED <<sensor, known, buf, crop, out, streaming, begun>>

\* fthd_buffer_queue_setup; it refuses when fewer than two buffers fit.
QueueSize == image

RequestBuffers ==
    /\ ~streaming /\ buf = 0
    /\ (4096 * 4096) \div image > 1
    /\ buf' = QueueSize /\ late' = FALSE
    /\ UNCHANGED <<sensor, known, fmt, image, crop, out, streaming, blind, begun>>

\* VIDIOC_CREATE_BUFS with a size of its own, which queue_setup checks.
CreateBuffers(size) ==
    /\ ~streaming /\ buf = 0
    /\ size >= image
    /\ buf' = size /\ late' = FALSE
    /\ UNCHANGED <<sensor, known, fmt, image, crop, out, streaming, blind, begun>>

FreeBuffers ==
    /\ ~streaming /\ buf # 0
    /\ buf' = 0 /\ late' = FALSE
    /\ UNCHANGED <<sensor, known, fmt, image, crop, out, streaming, blind, begun>>

\* fthd_start_channel asks for the sensor's size again (an answer may fail,
\* and then streaming does not start), and sets window and output.
StartChannel ==
    /\ ~streaming /\ buf # 0
    /\ known' \in {known, TRUE}
    /\ LET s == IF known' THEN sensor ELSE fmt
           r == Window(fmt, s)
       IN  /\ CropAccepted(r, known')
           /\ crop' = r
    /\ out' = fmt
    /\ streaming' = TRUE /\ begun' = [late |-> late, blind |-> blind]
    /\ UNCHANGED <<sensor, fmt, image, buf, late, blind>>

\* The firmware answers, but a later command fails: only the size is noted.
StartFails ==
    /\ ~streaming /\ buf # 0 /\ ~known
    /\ known' = TRUE
    /\ UNCHANGED <<sensor, fmt, image, buf, crop, out, streaming, late, blind, begun>>

StopChannel ==
    /\ streaming
    /\ streaming' = FALSE /\ crop' = NoRect /\ out' = <<0, 0>>
    /\ UNCHANGED <<sensor, known, fmt, image, buf, late, blind, begun>>

Next ==
    \/ \E w \in Widths, h \in Heights : SetFormat(w, h)
    \/ RequestBuffers \/ FreeBuffers
    \/ \E f \in {<<1280, 720>>, <<640, 480>>} : CreateBuffers(ImageSize(f))
    \/ StartChannel \/ StartFails \/ StopChannel
Spec == Init /\ [][Next]_vars
---------------------------------------------------------------------------
(* The comment in fthd_start_channel: the window is "derived from the      *)
(* sensor's own reported size, so neither can exceed it"; for every format *)
(* the code can reach, the checks of crop_set never refuse it.             *)
WindowAccepted ==
    \A k \in {known, TRUE} : CropAccepted(Window(fmt, IF k THEN sensor ELSE fmt), k)

(* "Let the ISP scale it down": the window is never smaller than the       *)
(* output, if the format was chosen knowing a sensor whose width the       *)
(* 8-pixel alignment respects.                                             *)
ScalesDown ==
    streaming /\ ~begun.blind /\ sensor[1] % 8 = 0 => crop.w >= out[1] /\ crop.h >= out[2]

(* "The largest centred window with the output's aspect ratio", up to the  *)
(* rounding: cropped in one direction only, and not distorted.             *)
AspectKept ==
    streaming =>
        LET d == crop.w * out[2] - crop.h * out[1] IN
        /\ -(2 * out[2] + out[1]) < d /\ d < 2 * out[2] + out[1]
        /\ known => crop.w >= sensor[1] - 1 \/ crop.h = sensor[2]

(* A frame fits the buffers it is written to, unless the format was        *)
(* changed while they were allocated, which S_FMT does not refuse.         *)
FrameFits == streaming /\ ~begun.late => ImageSize(out) <= buf
===========================================================================
