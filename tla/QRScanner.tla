------------------------------ MODULE QRScanner ------------------------------
(* The QR code scanner of the menu: the screen that scanQRCode: presents,  *)
(* its capture session, the frames that report a code to the main queue,   *)
(* and the block that dismisses the screen and joins the room.  A frame    *)
(* may report the same code again, report while the screen still slides in *)
(* or out, or still be queued when the next scanner is open.  AVFoundation *)
(* and UIKit are external: frames queue in order while the session runs;   *)
(* a dismissal asked for during a transition may be refused, and may also  *)
(* have its completion block run at the end of the transition under way.   *)
(* The menu is taken as presented by the login screen: a dismissal with no *)
(* scanner on it would dismiss the menu itself.                            *)
EXTENDS Naturals, Sequences

CONSTANTS
  Codes,     \* strings in QR codes
  MaxScans,  \* bound: how often the player opens the scanner
  MaxFrames  \* bound: frames in the main queue

Nil == "nil"
ASSUME CodesAssumption == Nil \notin Codes
ASSUME BoundsAssumption == MaxScans \in Nat /\ MaxFrames \in Nat

VARIABLES
  view,      \* the scanner's screen: "gone", "appearing", "shown" or "leaving"
  scan,      \* which scanner it is, counted from 1
  session,   \* its AVCaptureSession runs
  camera,    \* the code before the lens, or Nil
  frames,    \* queued calls of captureOutput, by code and scanner
  asked,     \* arguments of the completion blocks to run after the dismissal
  menu,      \* "up", "back" once dismissed to the login screen, or "dead"
  joins      \* history: codes joined, the scanner that read each, the one it closed

vars == <<view, scan, session, camera, frames, asked, menu, joins>>

Init ==
  /\ view = "gone" /\ scan = 0 /\ session = FALSE
  /\ camera \in Codes \cup {Nil} /\ frames = <<>> /\ asked = <<>>
  /\ menu = "up" /\ joins = {}

Frame(c) == [code |-> c, of |-> scan]

-----------------------------------------------------------------------------
(* scanQRCode: presents a new reader, and viewWillAppear starts its session*)
(* before the transition ends.                                             *)
ScanQRCode ==
  /\ menu = "up" /\ view = "gone" /\ scan < MaxScans
  /\ view' = "appearing" /\ scan' = scan + 1 /\ session' = TRUE
  /\ UNCHANGED <<camera, frames, asked, menu, joins>>

Appeared ==
  /\ view = "appearing"
  /\ view' = "shown"
  /\ UNCHANGED <<scan, session, camera, frames, asked, menu, joins>>

MoveCamera ==
  /\ \E c \in Codes \cup {Nil} : camera' = c
  /\ UNCHANGED <<view, scan, session, frames, asked, menu, joins>>

ReportFrame ==
  /\ session /\ camera # Nil /\ Len(frames) < MaxFrames
  /\ frames' = Append(frames, Frame(camera))
  /\ UNCHANGED <<view, scan, session, camera, asked, menu, joins>>

-----------------------------------------------------------------------------
(* Mutant of StopsOnDisappear: viewWillDisappear leaves the session alone. *)
RunsOnDisappear == session
StopsOnDisappear == FALSE

(* Mutant of GoesOnScanning: the first report of a code stops the session. *)
StopsAtReport == FALSE
GoesOnScanning == session

(* The menu's block dismisses the screen and asks for the join of frame f  *)
(* at the end; or it is refused, during a transition; or the screen is     *)
(* already leaving and the join is run with the others.                    *)
Dismiss(f) ==
  \/ /\ view \in {"appearing", "shown"}
     /\ view' = "leaving" /\ session' = StopsOnDisappear
     /\ asked' = Append(asked, f) /\ menu' = menu
  \/ /\ view \in {"appearing", "leaving"}
     /\ session' = GoesOnScanning /\ UNCHANGED <<view, asked, menu>>
  \/ view = "leaving" /\ asked' = Append(asked, f) /\ UNCHANGED <<view, session, menu>>
  \/ /\ view = "gone"
     /\ menu' = IF menu = "up" THEN "back" ELSE menu
     /\ UNCHANGED <<view, session, asked>>

(* Mutant of ReaderAlive: the reader's block holds it strongly.            *)
ReaderRetained(f) == TRUE

(* The block of the code reader holds the screen weakly: it is released    *)
(* when the dismissal ends.                                                *)
ReaderAlive(f) == f.of = scan /\ view # "gone"

(* captureOutput:didOutputMetadataObjects: of the first code in a frame.   *)
CaptureOutput ==
  /\ frames # <<>> /\ menu # "dead"
  /\ frames' = Tail(frames)
  /\ IF ReaderAlive(Head(frames))
       THEN Dismiss(Head(frames))
       ELSE UNCHANGED <<view, session, asked, menu>>
  /\ UNCHANGED <<scan, camera, joins>>

(* cancelAction: stops the session and hands nil to the block, which ends  *)
(* the app (Dismissed), although QRCodeReaderViewController.h:43 speaks of *)
(* a button to go back.                                                    *)
CancelAction ==
  /\ view = "shown"
  /\ Dismiss(Frame(Nil))
  /\ UNCHANGED <<scan, camera, frames, joins>>

(* The blocks run in turn: joinRoomWithRID of a code, while child: of nil  *)
(* ends the app.                                                           *)
Joined == {i \in DOMAIN asked : \A k \in 1 .. i : asked[k].code # Nil}

Dismissed ==
  /\ view = "leaving"
  /\ view' = "gone" /\ session' = FALSE /\ asked' = <<>>
  /\ joins' = joins \cup {[code |-> asked[i].code, of |-> asked[i].of, closed |-> scan] :
                            i \in Joined}
  /\ menu' = IF Joined = DOMAIN asked THEN menu ELSE "dead"
  /\ UNCHANGED <<scan, camera, frames>>

-----------------------------------------------------------------------------
Next ==
  \/ ScanQRCode \/ Appeared \/ MoveCamera \/ ReportFrame
  \/ CaptureOutput \/ CancelAction \/ Dismissed

Spec == Init /\ [][Next]_vars

(* Transitions end, the camera reports what it sees, the main queue runs;  *)
(* the player need not do anything.                                        *)
FairSpec == Spec /\ WF_vars(Appeared) /\ WF_vars(ReportFrame)
                 /\ WF_vars(CaptureOutput) /\ WF_vars(Dismissed)

-----------------------------------------------------------------------------
Reports == [code : Codes, of : 1 .. MaxScans]

(* Every variable has its type, and the camera is off unless the scanner   *)
(* is on its way in or shown (QRCodeReaderViewController.m:147-152).       *)
TypeOK ==
  /\ view \in {"gone", "appearing", "shown", "leaving"}
  /\ scan \in 0 .. MaxScans
  /\ session \in BOOLEAN
  /\ camera \in Codes \cup {Nil}
  /\ frames \in Seq(Reports) /\ Len(frames) <= MaxFrames
  /\ asked \in Seq([code : Codes \cup {Nil}, of : 1 .. MaxScans])
  /\ menu \in {"up", "back", "dead"}
  /\ joins \subseteq [code : Codes, of : 1 .. MaxScans, closed : 1 .. MaxScans]
  /\ session => view \in {"appearing", "shown"}

(* A frame that is still queued when its scanner is gone does nothing: it  *)
(* neither dismisses the menu nor closes and joins through the next scanner*)
(* (the weak reference of QRCodeReaderViewController.m:98-102).            *)
LateFrameIsDropped ==
  /\ menu # "back"
  /\ \A j \in joins : j.of = j.closed

(* A scanner that is shown with a code before the lens closes, although a  *)
(* dismissal may have been refused while it was sliding in: every frame    *)
(* reports the code again (QRCodeReader.m:249-262).                        *)
ScanEnds ==
  \A c \in Codes :
    (view = "shown" /\ camera = c) ~> (view # "shown" \/ camera # c)
=============================================================================
