------------------------------ MODULE ImagePicker ------------------------------
(***************************************************************************)
(* ProfileImagePicker of packages/shared: the picture a form will send is  *)
(* uploaded or taken with the camera, compressed, shown and perhaps        *)
(* removed.  Compressions and the browser's camera answer when they like.  *)
(***************************************************************************)
EXTENDS Integers, FiniteSets

CONSTANTS
    MaxPictures,    \* bound: pictures chosen or taken; 0 is none
    MaxCameras      \* bound: times the camera is asked for

VARIABLES
    mode,           \* "idle", "preview", "camera"
    value,          \* the picture the form has
    chosen,         \* pictures chosen so far
    compressing,    \* those being compressed
    cameras,        \* times the camera was asked for
    opening,        \* requests for it that are not answered
    live,           \* the streams that run
    stream,         \* streamRef: the one the picker knows, 0: none
    mounted,        \* the picker is on the page
    choice,         \* history: the last choice: a picture, or 0 after a removal
    crossed,        \* history: that was made while a compression was under way, or failed
    hidden,         \* history: taking a picture failed, and another was there
    leaked          \* history: the camera was asked for while it was being opened, the page
                    \* was left then, or a picture taken before failed while it ran again

cameraVars == <<cameras, opening, live, stream>>
historyVars == <<choice, crossed, hidden, leaked>>
vars == <<mode, value, chosen, compressing, cameraVars, mounted, historyVars>>

Pictures == 0..MaxPictures
Compression == [picture : 1..MaxPictures, taken : BOOLEAN]

Init ==
    /\ mode = "idle" /\ value = 0 /\ chosen = 0 /\ compressing = {}
    /\ cameras = 0 /\ opening = {} /\ live = {} /\ stream = 0 /\ mounted = TRUE
    /\ choice = 0 /\ crossed = FALSE /\ hidden = FALSE /\ leaked = FALSE

stopNothing == UNCHANGED <<live, stream>>
stopCamera == live' = live \ {stream} /\ stream' = 0

Choose(taken) ==
    /\ chosen < MaxPictures /\ chosen' = chosen + 1
    /\ compressing' = compressing \cup {[picture |-> chosen + 1, taken |-> taken]}
    /\ choice' = chosen + 1 /\ crossed' = (compressing # {})

\* The upload button is there when the camera's picture is not.
handleUploadChange ==
    /\ mounted /\ mode # "camera"
    /\ Choose(FALSE)
    /\ UNCHANGED <<mode, value, cameraVars, mounted, hidden, leaked>>

\* The camera stops, its picture stays until the compression ends.
capturePhoto ==
    /\ mounted /\ mode = "camera"
    /\ Choose(TRUE) /\ stopCamera
    /\ UNCHANGED <<mode, value, cameras, opening, mounted, hidden, leaked>>

\* onChange: the effect on value shows it, and the clean-up before stops the camera.
CompressedUnshown(c) ==
    /\ compressing' = compressing \ {c}
    /\ IF mounted THEN value' = c.picture /\ stopCamera ELSE UNCHANGED <<value, live, stream>>
    /\ UNCHANGED <<mode, chosen, cameras, opening, mounted, historyVars>>
Compressed(c) ==
    /\ compressing' = compressing \ {c}
    /\ IF mounted THEN /\ value' = c.picture /\ mode' = "preview" /\ stopCamera
                       /\ hidden' = FALSE
       ELSE UNCHANGED <<value, mode, live, stream, hidden>>
    /\ UNCHANGED <<chosen, cameras, opening, mounted, choice, crossed, leaked>>

CompressionFailed(c) ==
    /\ compressing' = compressing \ {c}
    /\ mode' = IF c.taken /\ mounted THEN "idle" ELSE mode
    /\ crossed' = TRUE /\ hidden' = (hidden \/ (c.taken /\ value # 0))
    /\ leaked' = (leaked \/ (c.taken /\ live # {}))
    /\ UNCHANGED <<value, chosen, cameraVars, mounted, choice>>

\* Its button stays enabled until the browser answers.
startCamera ==
    /\ mounted /\ mode # "camera" /\ cameras < MaxCameras
    /\ stopCamera
    /\ cameras' = cameras + 1 /\ opening' = opening \cup {cameras + 1}
    /\ leaked' = (leaked \/ opening # {})
    /\ UNCHANGED <<mode, value, chosen, compressing, mounted, choice, crossed, hidden>>

CameraOpened(request) ==
    /\ opening' = opening \ {request}
    /\ live' = live \cup {request} /\ stream' = request
    /\ mode' = IF mounted THEN "camera" ELSE mode
    /\ UNCHANGED <<value, chosen, compressing, cameras, mounted, historyVars>>

CameraRefused(request) ==
    /\ opening' = opening \ {request}
    /\ UNCHANGED <<mode, value, chosen, compressing, cameras, live, stream, mounted, historyVars>>

cancelCamera ==
    /\ mounted /\ mode = "camera"
    /\ stopCamera
    /\ mode' = IF value # 0 THEN "preview" ELSE "idle"
    /\ hidden' = FALSE
    /\ UNCHANGED <<value, chosen, compressing, cameras, opening, mounted, choice, crossed, leaked>>

removeImage ==
    /\ mounted /\ mode = "preview"
    /\ stopCamera
    /\ value' = 0 /\ mode' = "idle"
    /\ choice' = 0 /\ crossed' = (compressing # {}) /\ hidden' = FALSE
    /\ UNCHANGED <<chosen, compressing, cameras, opening, mounted, leaked>>

\* The form's page is left.
Leave ==
    /\ mounted /\ mounted' = FALSE
    /\ stopCamera
    /\ leaked' = (leaked \/ opening # {})
    /\ UNCHANGED <<mode, value, chosen, compressing, cameras, opening, choice, crossed, hidden>>

Next ==
    \/ handleUploadChange \/ capturePhoto \/ startCamera \/ cancelCamera \/ removeImage \/ Leave
    \/ \E c \in compressing : Compressed(c) \/ CompressionFailed(c)
    \/ \E request \in opening : CameraOpened(request) \/ CameraRefused(request)

Spec == Init /\ [][Next]_vars

TypeOK ==
    /\ mode \in {"idle", "preview", "camera"} /\ {value, chosen, choice} \subseteq Pictures
    /\ compressing \subseteq Compression
    /\ cameras \in 0..MaxCameras /\ {opening, live} \subseteq SUBSET (1..MaxCameras)
    /\ stream \in {0} \cup live
    /\ {mounted, crossed, hidden, leaked} \subseteq BOOLEAN

(* At rest the picture the form has is the last one chosen, and it is shown, unless *)
(* the choice was made during another compression or a compression failed.          *)
PictureIsTheChoice ==
    mounted /\ compressing = {} =>
        /\ value = choice \/ crossed
        /\ mode # "camera" => (mode = "preview") = (value # 0) \/ hidden

(* The camera runs only while the picker shows it, unless it was asked for twice or *)
(* the page was left while the browser was asking the user, or a picture taken      *)
(* before failed while it ran again.                                                *)
CameraOnlyWhileShown == live # {} => (mounted /\ mode = "camera") \/ leaked

=============================================================================
