--------------------------- MODULE UploadsProofs ----------------------------
(***************************************************************************)
(* What Uploads promises, for any number of images and of faults.          *)
(***************************************************************************)
EXTENDS Uploads, TLAPS

(* Every variable keeps its type, and copies are only made of files.        *)
THEOREM TypeCorrectness == Spec => []TypeOK
<1>1. Init => TypeOK
  BY FaultsAssumption DEF Init, TypeOK
<1>2. TypeOK /\ [Next]_vars => TypeOK'
  <2> SUFFICES ASSUME TypeOK, [Next]_vars PROVE TypeOK'
    OBVIOUS
  <2> USE FaultsAssumption DEF TypeOK
  <2>1. ASSUME NEW k \in Keys, Open(k) PROVE TypeOK'
    BY <2>1 DEF Open, Fault
  <2>2. ASSUME NEW k \in Keys, Write(k) PROVE TypeOK'
    BY <2>2 DEF Write, Fault, Filled, AfterFailedWrite
  <2>3. ASSUME NEW k \in Keys, Close(k) PROVE TypeOK'
    BY <2>3 DEF Close, Fault, Filled
  <2>4. ASSUME NEW k \in Keys, DeleteUpload(k) PROVE TypeOK'
    BY <2>4 DEF DeleteUpload
  <2>5. ASSUME NEW k \in Keys, ServeUpload(k) PROVE TypeOK'
    BY <2>5 DEF ServeUpload, Opens, Fault
  <2>6. CASE ListUploads
    BY <2>6 DEF ListUploads
  <2>7. CASE Crash
    BY <2>7 DEF Crash, Fault
  <2>8. CASE UNCHANGED vars
    BY <2>8 DEF vars
  <2> QED
    BY <2>1, <2>2, <2>3, <2>4, <2>5, <2>6, <2>7, <2>8 DEF Next
<1> QED
  BY <1>1, <1>2, PTL DEF Spec

(* A link that was answered and every copy that is kept show the whole image, *)
(* but for a close that could not write, a key taken from the library while *)
(* the upload ran, and a read that broke off unnoticed.                     *)
THEOREM WholeImagesAreServed == Spec => []ServedIsWhole
<1>1. Init => ServedIsWhole
  BY DEF Init, ServedIsWhole
<1>2. TypeOK /\ TypeOK' /\ ServedIsWhole /\ [Next]_vars => ServedIsWhole'
  <2> SUFFICES ASSUME TypeOK, TypeOK', ServedIsWhole, [Next]_vars PROVE ServedIsWhole'
    OBVIOUS
  <2> USE DEF TypeOK, ServedIsWhole
  <2>1. ASSUME NEW k \in Keys, Open(k) PROVE ServedIsWhole'
    BY <2>1 DEF Open
  <2>2. ASSUME NEW k \in Keys, Write(k) PROVE ServedIsWhole'
    BY <2>2 DEF Write, Filled, AfterFailedWrite
  <2>3. ASSUME NEW k \in Keys, Close(k) PROVE ServedIsWhole'
    BY <2>3 DEF Close, Filled
  <2>4. ASSUME NEW k \in Keys, DeleteUpload(k) PROVE ServedIsWhole'
    BY <2>4 DEF DeleteUpload
  <2>5. ASSUME NEW k \in Keys, ServeUpload(k) PROVE ServedIsWhole'
    BY <2>5 DEF ServeUpload, Known
  <2>6. CASE ListUploads
    BY <2>6 DEF ListUploads
  <2>7. CASE Crash
    BY <2>7 DEF Crash
  <2>8. CASE UNCHANGED vars
    BY <2>8 DEF vars
  <2> QED
    BY <2>1, <2>2, <2>3, <2>4, <2>5, <2>6, <2>7, <2>8 DEF Next
<1>3. QED
  BY <1>1, <1>2, TypeCorrectness, PTL DEF Spec
=============================================================================
