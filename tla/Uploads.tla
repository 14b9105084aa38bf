------------------------------- MODULE Uploads ------------------------------
(***************************************************************************)
(* Images: src/src/api/UploadController.hpp over the local backend of      *)
(* src/src/storage/Storage.hpp.  put() opens the file, writes into a       *)
(* stream, and closes it on the way out; between these steps the file is   *)
(* there for the media library and for GET /uploads/.  get() reads it in   *)
(* one go.  Every upload has a fresh random key, so an upload is named by  *)
(* its key.                                                                *)
(***************************************************************************)
EXTENDS Naturals, FiniteSets

CONSTANTS
    Keys,
    MaxFaults       \* bound on failed I/O calls and crashes

ASSUME FaultsAssumption == MaxFaults \in Nat

VARIABLES
    file,       \* file[k]: none, partial (or empty), whole
    put,        \* put[k]: idle, open, written, answered, refused
    lost,       \* keys whose last bytes the close could not write
    listed,     \* keys the media library showed before they were answered
    copies,     \* copies[k]: what GET /uploads/k has served, cached for a year
    misread,    \* keys of which a read broke off
    faults

vars == <<file, put, lost, listed, copies, misread, faults>>

Init ==
    /\ file = [k \in Keys |-> "none"]
    /\ put = [k \in Keys |-> "idle"]
    /\ lost = {} /\ listed = {} /\ misread = {}
    /\ copies = [k \in Keys |-> {}]
    /\ faults = 0

Fault == faults < MaxFaults /\ faults' = faults + 1

(* upload() past its checks; the constructor of the ofstream truncates. *)
Open(k) ==
    /\ put[k] = "idle"
    /\ \/ /\ file' = [file EXCEPT ![k] = "partial"]
          /\ put' = [put EXCEPT ![k] = "open"]
          /\ UNCHANGED faults
       \/ /\ Fault                                  \* 503 storage_error
          /\ put' = [put EXCEPT ![k] = "refused"]
          /\ UNCHANGED file
    /\ UNCHANGED <<lost, listed, copies, misread>>

(* Writing to a file that deleteUpload unlinked reaches nobody. *)
Filled(k) == IF file[k] = "none" THEN file ELSE [file EXCEPT ![k] = "whole"]

(* A slip: the stream is not looked at after the write. *)
AfterFailedWriteUnchecked(k) == put' = [put EXCEPT ![k] = "answered"]

AfterFailedWrite(k) == put' = [put EXCEPT ![k] = "refused"]

(* out.write(): a large image goes to the file, a small one stays in the
   stream's buffer until the close; a failure is thrown. *)
Write(k) ==
    /\ put[k] = "open"
    /\ \/ /\ file' \in {file, Filled(k)}
          /\ put' = [put EXCEPT ![k] = "written"]
          /\ UNCHANGED faults
       \/ /\ Fault
          /\ AfterFailedWrite(k)
          /\ UNCHANGED file
    /\ UNCHANGED <<lost, listed, copies, misread>>

(* The ofstream's destructor flushes the buffer and reports nothing; 201. *)
Close(k) ==
    /\ put[k] = "written"
    /\ put' = [put EXCEPT ![k] = "answered"]
    /\ \/ /\ file' = Filled(k)
          /\ UNCHANGED <<lost, faults>>
       \/ /\ Fault /\ file[k] = "partial"
          /\ lost' = lost \union {k}
          /\ UNCHANGED file
    /\ UNCHANGED <<listed, copies, misread>>

(* The server dies in the middle of a put; the file stays as it is. *)
Crash ==
    /\ Fault
    /\ \E k \in Keys : put[k] \in {"open", "written"}
    /\ put' = [k \in Keys |-> IF put[k] \in {"open", "written"} THEN "refused" ELSE put[k]]
    /\ UNCHANGED <<file, lost, listed, copies, misread>>

(* listUploads: every regular file under posts/, finished or not *)
ListUploads ==
    /\ listed' = listed \union {k \in Keys : file[k] /= "none" /\ put[k] /= "answered"}
    /\ listed' /= listed
    /\ UNCHANGED <<file, put, lost, copies, misread, faults>>

(* Keys are random: only an answer or the media library tells one. *)
Known(k) == put[k] = "answered" \/ k \in listed

(* deleteUpload: 404 when there is no such file *)
DeleteUpload(k) ==
    /\ Known(k) /\ file[k] /= "none"
    /\ file' = [file EXCEPT ![k] = "none"]
    /\ UNCHANGED <<put, lost, listed, copies, misread, faults>>

(* A slip: the ifstream is not looked at after the open. *)
OpensUnchecked(k) == TRUE

Opens(k) == file[k] /= "none"

(* serveUpload: 404 when there is no such file, else a copy to keep.  get()
   does not look at its streams after the read: of a read that breaks off, the
   bytes so far go out with 200 and the same header. *)
ServeUpload(k) ==
    /\ Known(k) /\ Opens(k)
    /\ \/ /\ copies' = [copies EXCEPT ![k] = @ \union {file[k]}]
          /\ copies' /= copies
          /\ UNCHANGED <<misread, faults>>
       \/ /\ Fault
          /\ copies' = [copies EXCEPT ![k] = @ \union {"partial"}]
          /\ misread' = misread \union {k}
    /\ UNCHANGED <<file, put, lost, listed>>

Next ==
    \/ \E k \in Keys :
        Open(k) \/ Write(k) \/ Close(k) \/ DeleteUpload(k) \/ ServeUpload(k)
    \/ ListUploads
    \/ Crash

Spec == Init /\ [][Next]_vars

-----------------------------------------------------------------------------
(* Types; no copy is served of a file that is not there. *)
TypeOK ==
    /\ file \in [Keys -> {"none", "partial", "whole"}]
    /\ put \in [Keys -> {"idle", "open", "written", "answered", "refused"}]
    /\ lost \subseteq Keys /\ listed \subseteq Keys /\ misread \subseteq Keys
    /\ copies \in [Keys -> SUBSET {"partial", "whole"}]
    /\ faults \in 0 .. MaxFaults

(* A link that an upload was answered with shows the whole image or nothing,
   and so does every copy kept under the immutable header.  The exceptions:
   a close that could not write, a key read out of the media library while the
   upload ran, and a read that broke off.  The first and the last are failures
   that Storage.hpp:40-41 says are thrown; the code does not notice them. *)
ServedIsWhole ==
    \A k \in Keys :
        /\ put[k] = "answered" /\ file[k] = "partial" => k \in lost
        /\ "partial" \in copies[k] => k \in lost \union listed \union misread
=============================================================================
