----------------------------- MODULE CallRecords ------------------------------
(***************************************************************************)
(* The calls table after a call: recordings are transcribed and attached   *)
(* on request (internal/service/transcription), and the retention loop of  *)
(* cmd/yaver/main.go prunes calls older than the configured window.        *)
(***************************************************************************)
EXTENDS Integers

CONSTANTS
    Merchants,        \* orgs
    Recordings,       \* recording URLs; a recording's text is named after it
    Transcribers,     \* concurrent transcribe requests
    RetentionWindow,  \* CallRetentionDays
    MaxCalls,         \* bound: calls, ids 1..MaxCalls
    MaxRequests,      \* bound: transcribe requests
    MaxTime,          \* bound: the clock
    MaxSweepFaults,   \* bound: failed sweeps
    None

ASSUME CallRecordsAssumption ==
    /\ {RetentionWindow, MaxCalls, MaxRequests, MaxTime, MaxSweepFaults} \subseteq Nat
    /\ RetentionWindow > 0
    /\ None \notin Merchants \cup Recordings

VARIABLES
    now,
    call,      \* calls
    req,       \* each transcribe request
    requests,
    sweeper,   \* the retention loop between reading the clock and the DELETE
    sweepFaults

recordVars == <<now, call, req, requests, sweeper, sweepFaults>>

CallIds == 1..MaxCalls
NoCall == [status |-> "none", org |-> None, created |-> 0, recording |-> None,
           transcript |-> None, by |-> None]
NoRequest == [pc |-> "idle", org |-> None, call |-> 0, recording |-> None]
NoSweep == [busy |-> FALSE, cutoff |-> 0]

Call == [status : {"none", "kept", "deleted"}, org : Merchants \cup {None},
         created : 0..MaxTime, recording : Recordings \cup {None},
         transcript : Recordings \cup {None}, by : Merchants \cup {None}]
TranscribeReq == [pc : {"idle", "fetch", "attach"}, org : Merchants \cup {None},
                  call : 0..MaxCalls, recording : Recordings \cup {None}]

CallRecordsTypeOK ==
    /\ now \in 0..MaxTime
    /\ call \in [CallIds -> Call]
    /\ req \in [Transcribers -> TranscribeReq]
    /\ requests \in 0..MaxRequests
    /\ sweeper \in [busy : BOOLEAN, cutoff : -RetentionWindow..MaxTime]
    /\ sweepFaults \in 0..MaxSweepFaults

RecordsInit ==
    /\ now = 0
    /\ call = [c \in CallIds |-> NoCall]
    /\ req = [h \in Transcribers |-> NoRequest]
    /\ requests = 0
    /\ sweeper = NoSweep
    /\ sweepFaults = 0

-------------------------------------------------------------------------------
DayPasses ==
    /\ now < MaxTime
    /\ now' = now + 1
    /\ UNCHANGED <<call, req, requests, sweeper, sweepFaults>>

CreateCall(o) ==
    LET unused == {c \in CallIds : call[c] = NoCall} IN
    /\ unused # {}
    /\ call' = [call EXCEPT ![CHOOSE c \in unused : TRUE] =
                   [NoCall EXCEPT !.status = "kept", !.org = o, !.created = now]]
    /\ UNCHANGED <<now, req, requests, sweeper, sweepFaults>>

RequestAt(h, l) == req[h].pc = l

(* The row is there to be selected or updated.                             *)
Found(c) == call[c].status = "kept"

(* Service.Get: not found unless it is the caller's.                       *)
Get(o, c) == Found(c) /\ call[c].org = o

TranscribeCall(h, o, c, r) ==
    /\ RequestAt(h, "idle")
    /\ requests < MaxRequests
    /\ requests' = requests + 1
    /\ Get(o, c)
    /\ req' = [req EXCEPT ![h] = [pc |-> "fetch", org |-> o, call |-> c, recording |-> r]]
    /\ UNCHANGED <<now, call, sweeper, sweepFaults>>

(* Download the recording and run it through the STT.                      *)
Transcribe(h) ==
    /\ RequestAt(h, "fetch")
    /\ req' = [req EXCEPT ![h].pc = "attach"]
    /\ UNCHANGED <<now, call, requests, sweeper, sweepFaults>>

\* Mutant: a call that has a recording keeps its URL.
AttachText(c, r, o) ==
    call' = [call EXCEPT ![c].transcript = r, ![c].by = o,
                         ![c].recording = IF @ = None THEN r ELSE @]

(* One UPDATE of both columns.                                             *)
AttachCallMedia(c, r, o) ==
    call' = [call EXCEPT ![c].recording = r, ![c].transcript = r, ![c].by = o]

(* The UPDATE matches no row when the call is gone, which is no error.     *)
AttachMedia(h) ==
    LET c == req[h].call IN
    /\ RequestAt(h, "attach")
    /\ \/ /\ Found(c)
          /\ AttachCallMedia(c, req[h].recording, req[h].org)
       \/ ~Found(c) /\ UNCHANGED call
    /\ req' = [req EXCEPT ![h] = NoRequest]
    /\ UNCHANGED <<now, requests, sweeper, sweepFaults>>

(* The download or the STT fails, or the UPDATE does.                      *)
TranscribeFails(h) ==
    /\ ~RequestAt(h, "idle")
    /\ req' = [req EXCEPT ![h] = NoRequest]
    /\ UNCHANGED <<now, call, requests, sweeper, sweepFaults>>

-------------------------------------------------------------------------------
RetentionTick ==
    /\ ~sweeper.busy
    /\ sweeper' = [busy |-> TRUE, cutoff |-> now - RetentionWindow]
    /\ UNCHANGED <<now, call, req, requests, sweepFaults>>

\* Mutant: prunes calls that are younger than the window.
TooYoung(c) == call[c].status = "kept" /\ call[c].created <= sweeper.cutoff + 1

CreatedBefore(c) == call[c].status = "kept" /\ call[c].created < sweeper.cutoff

DeleteBefore ==
    /\ sweeper.busy
    /\ call' = [c \in CallIds |->
                   IF CreatedBefore(c) THEN [call[c] EXCEPT !.status = "deleted"] ELSE call[c]]
    /\ sweeper' = NoSweep
    /\ UNCHANGED <<now, req, requests, sweepFaults>>

(* The error is logged; the next tick tries again.                         *)
SweepFails ==
    /\ sweeper.busy
    /\ sweepFaults < MaxSweepFaults
    /\ sweepFaults' = sweepFaults + 1
    /\ sweeper' = NoSweep
    /\ UNCHANGED <<now, call, req, requests>>

RecordsNext ==
    \/ DayPasses
    \/ \E o \in Merchants : CreateCall(o)
    \/ \E h \in Transcribers, o \in Merchants, c \in CallIds, r \in Recordings :
           TranscribeCall(h, o, c, r)
    \/ \E h \in Transcribers : Transcribe(h)
    \/ \E h \in Transcribers : AttachMedia(h)
    \/ \E h \in Transcribers : TranscribeFails(h)
    \/ RetentionTick
    \/ DeleteBefore
    \/ SweepFails

RecordsSpec == RecordsInit /\ [][RecordsNext]_recordVars

-------------------------------------------------------------------------------
(* Whatever transcriptions of a call overlap, its transcript is that of    *)
(* the recording it names.                                                 *)
TranscriptOfRecording == \A c \in CallIds : call[c].transcript = call[c].recording

(* A call's media were attached by a request of its own org, although the  *)
(* UPDATE itself names only the call.                                      *)
MediaFromOwner == \A c \in CallIds : call[c].by \in {None, call[c].org}

(* Retention deletes no call inside the window, even when the DELETE runs  *)
(* later than its clock reading.                                           *)
KeptForWindow ==
    [][\A c \in CallIds : call[c].status = "kept" /\ call'[c].status = "deleted" =>
           now - call[c].created > RetentionWindow]_recordVars

(* What holds of stored calls while transcriptions of two orgs overlap     *)
(* with each other and with the retention sweep.                           *)
RecordsInv == CallRecordsTypeOK /\ TranscriptOfRecording /\ MediaFromOwner
===============================================================================
