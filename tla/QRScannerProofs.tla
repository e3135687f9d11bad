--------------------------- MODULE QRScannerProofs ---------------------------
(* Proofs about QRScanner for every set of codes and every bound.  A join  *)
(* is recorded when the dismissal ends, so the invariant follows a report  *)
(* from the frame to the blocks that wait for the end of the dismissal.    *)
EXTENDS QRScanner, TLAPS

(* Blocks wait only while the scanner leaves, and are of that scanner.     *)
AskedOfScan ==
  /\ view # "leaving" => asked = <<>>
  /\ \A i \in DOMAIN asked : asked[i].of = scan

ScannerInv ==
  /\ TypeOK
  /\ view # "gone" => scan \in 1 .. MaxScans
  /\ AskedOfScan
  /\ LateFrameIsDropped

(* The argument of a block is a code or nil, with the number of a scanner. *)
Asks == [code : Codes \cup {Nil}, of : 1 .. MaxScans]

(* Dismissing on behalf of the scanner that is open preserves what its     *)
(* variables must satisfy.                                                 *)
LEMMA DismissSound ==
  ASSUME ScannerInv, NEW f \in Asks, f.of = scan, view # "gone", Dismiss(f),
         UNCHANGED scan
  PROVE  /\ view' \in {"appearing", "shown", "leaving"}
         /\ session' \in BOOLEAN /\ (session' => view' \in {"appearing", "shown"})
         /\ asked' \in Seq(Asks) /\ AskedOfScan'
         /\ menu' = menu
<1>1. asked \in Seq(Asks) /\ view \in {"gone", "appearing", "shown", "leaving"}
  BY DEF ScannerInv, TypeOK, Asks
<1>2. Append(asked, f) \in Seq(Asks) /\ (\A i \in DOMAIN Append(asked, f) :
                                             Append(asked, f)[i].of = scan)
  BY <1>1 DEF ScannerInv, AskedOfScan
<1>3. CASE view' = "leaving" /\ session' = FALSE /\ asked' = Append(asked, f) /\ menu' = menu
  BY <1>2, <1>3 DEF AskedOfScan
<1>4. CASE UNCHANGED <<view, session, asked, menu>>
  BY <1>1, <1>4 DEF ScannerInv, TypeOK, AskedOfScan
<1>5. CASE view = "leaving" /\ asked' = Append(asked, f) /\ UNCHANGED <<view, session, menu>>
  BY <1>2, <1>5 DEF ScannerInv, TypeOK, AskedOfScan
<1> QED
  BY <1>3, <1>4, <1>5 DEF Dismiss, StopsOnDisappear, GoesOnScanning

(* The initial state satisfies the invariant.                              *)
LEMMA ScannerInit == Init => ScannerInv
<1> SUFFICES ASSUME Init PROVE ScannerInv
  OBVIOUS
<1>1. <<>> \in Seq(Reports) /\ <<>> \in Seq([code : Codes \cup {Nil}, of : 1 .. MaxScans])
  OBVIOUS
<1>2. frames = <<>> /\ asked = <<>> /\ Len(frames) = 0 /\ 0 \in 0 .. MaxScans
  BY BoundsAssumption DEF Init
<1>3. TypeOK
  <2>1. Len(frames) <= MaxFrames /\ scan \in 0 .. MaxScans
    BY <1>2, BoundsAssumption DEF Init
  <2> QED
    BY <1>1, <1>2, <2>1 DEF Init, TypeOK
<1> QED
  BY <1>2, <1>3 DEF Init, ScannerInv, AskedOfScan, LateFrameIsDropped

(* Every step preserves the invariant.                                     *)
LEMMA ScannerNext == ScannerInv /\ [Next]_vars => ScannerInv'
<1> SUFFICES ASSUME ScannerInv, [Next]_vars PROVE ScannerInv'
  OBVIOUS
<1> USE DEF ScannerInv, LateFrameIsDropped
<1>1. CASE ScanQRCode
  <2>1. scan' \in 1 .. MaxScans /\ asked = <<>>
    BY <1>1, BoundsAssumption DEF ScanQRCode, TypeOK, AskedOfScan
  <2>2. TypeOK'
    <3>1. scan' \in 0 .. MaxScans
      BY <2>1, BoundsAssumption
    <3>2. session' = TRUE /\ view' = "appearing"
      BY <1>1 DEF ScanQRCode
    <3> QED
      BY <1>1, <3>1, <3>2 DEF ScanQRCode, TypeOK
  <2>3. AskedOfScan'
    BY <1>1, <2>1 DEF ScanQRCode, AskedOfScan
  <2> QED
    BY <1>1, <2>1, <2>2, <2>3 DEF ScanQRCode
<1>2. CASE Appeared
  BY <1>2 DEF Appeared, TypeOK, AskedOfScan
<1>3. CASE MoveCamera
  BY <1>3 DEF MoveCamera, TypeOK, AskedOfScan
<1>4. CASE ReportFrame
  <2>1. Frame(camera) \in Reports
    BY <1>4 DEF ReportFrame, Frame, Reports, TypeOK
  <2>2. frames' \in Seq(Reports) /\ Len(frames') <= MaxFrames
    BY <1>4, <2>1, BoundsAssumption DEF ReportFrame, TypeOK
  <2> QED
    BY <1>4, <2>2 DEF ReportFrame, TypeOK, AskedOfScan
<1>5. CASE CaptureOutput
  <2>1. Head(frames) \in Reports /\ frames' \in Seq(Reports) /\ Len(frames') <= MaxFrames
    BY <1>5, BoundsAssumption DEF CaptureOutput, TypeOK
  <2>2. CASE ReaderAlive(Head(frames))
    <3>1. Head(frames) \in Asks /\ Head(frames).of = scan /\ view # "gone"
      BY <2>1, <2>2 DEF ReaderAlive, Reports, Asks
    <3>2. Dismiss(Head(frames)) /\ UNCHANGED <<scan, camera, joins>>
      BY <1>5, <2>2 DEF CaptureOutput
    <3> QED
      BY <2>1, <3>1, <3>2, DismissSound DEF TypeOK, Asks
  <2>3. CASE ~ReaderAlive(Head(frames))
    BY <1>5, <2>1, <2>3 DEF CaptureOutput, TypeOK, AskedOfScan
  <2> QED
    BY <2>2, <2>3
<1>6. CASE CancelAction
  <2>1. Frame(Nil) \in Asks /\ Frame(Nil).of = scan /\ view # "gone"
    BY <1>6 DEF CancelAction, Frame, Asks
  <2> QED
    BY <1>6, <2>1, DismissSound DEF CancelAction, TypeOK, Asks
<1>7. CASE Dismissed
  <2>1. \A i \in Joined : asked[i] \in Asks /\ asked[i].code # Nil /\ asked[i].of = scan
    <3>1. asked \in Seq(Asks)
      BY DEF TypeOK, Asks
    <3>2. \A i \in DOMAIN asked : asked[i] \in Asks /\ i \in 1 .. i
      BY <3>1
    <3> QED
      BY <3>2 DEF Joined, AskedOfScan
  <2>2. \A i \in Joined : [code |-> asked[i].code, of |-> asked[i].of, closed |-> scan]
                            \in [code : Codes, of : 1 .. MaxScans, closed : 1 .. MaxScans]
    BY <1>7, <2>1 DEF Dismissed, Asks
  <2>3. joins' \subseteq [code : Codes, of : 1 .. MaxScans, closed : 1 .. MaxScans]
    BY <1>7, <2>2 DEF Dismissed, TypeOK
  <2>4. \A j \in joins' : j.of = j.closed
    BY <1>7, <2>1 DEF Dismissed
  <2>5. asked' \in Seq([code : Codes \cup {Nil}, of : 1 .. MaxScans]) /\ AskedOfScan'
    BY <1>7 DEF Dismissed, AskedOfScan
  <2>6. menu' \in {"up", "dead"}
    BY <1>7 DEF Dismissed, TypeOK
  <2>7. TypeOK'
    BY <1>7, <2>3, <2>5, <2>6 DEF Dismissed, TypeOK
  <2> QED
    BY <1>7, <2>4, <2>5, <2>6, <2>7 DEF Dismissed
<1>8. CASE UNCHANGED vars
  BY <1>8 DEF vars, TypeOK, AskedOfScan
<1> QED
  BY <1>1, <1>2, <1>3, <1>4, <1>5, <1>6, <1>7, <1>8 DEF Next

(* Every variable of the scanner has its type in every state.              *)
THEOREM ScannerTypeOK == Spec => []TypeOK
<1>1. ScannerInv => TypeOK
  BY DEF ScannerInv
<1> QED
  BY <1>1, ScannerInit, ScannerNext, PTL DEF Spec

(* A frame still queued when its scanner is gone never dismisses the menu  *)
(* nor closes and joins through a later scanner, however many frames repeat*)
(* and however UIKit treats a dismissal during a transition.               *)
THEOREM LateFramesDropped == Spec => []LateFrameIsDropped
<1>1. ScannerInv => LateFrameIsDropped
  BY DEF ScannerInv
<1> QED
  BY <1>1, ScannerInit, ScannerNext, PTL DEF Spec
=============================================================================
