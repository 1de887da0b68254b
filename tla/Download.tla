------------------------------ MODULE Download ------------------------------
(***************************************************************************)
(* The resumable, verified download of app/download.go, with the cleanup   *)
(* of its staging file in app/setup_cancel.go.                             *)
(*                                                                         *)
(* A payload is a sequence of blocks.  The bytes of a download collect in  *)
(* a .part file that outlives attempts, launches and crashes; an attempt   *)
(* asks the server for the rest of it.  What the server holds under the    *)
(* URL may change between two requests, so a .part file may continue       *)
(* another payload than it began.  Only a file with the digest the release *)
(* manifest names is published.                                            *)
(***************************************************************************)
EXTENDS Naturals, Sequences

CONSTANTS
  Payloads,    \* what the server may hold under the URL
  Want,        \* the payload whose digest the manifest names
  Blocks,      \* the length of each payload
  MaxAttempts, \* downloadOptions.maxAttempts
  None,
  MaxFaults    \* bound on network failures, odd answers, crashes, exchanges

ASSUME DownloadAssumption ==
  /\ Want \in Payloads
  /\ Blocks \in [Payloads -> Nat \ {0}]
  /\ None \notin Payloads
  /\ MaxAttempts \in Nat \ {0} /\ MaxFaults \in Nat

\* An answer with a body: blocks from + 1 .. to of payload.  append is the
\* branch that keeps what the .part file holds; sized is FALSE for a body of
\* unknown length.
Answer == [payload: Payloads, from: Nat, to: Nat, append: BOOLEAN, sized: BOOLEAN]

VARIABLES
  serving,   \* what the server holds
  part,      \* the .part file: the payload each of its blocks came from
  dest,      \* the published file: its blocks, or None
  pc,
  attempt, restarted,  \* attempt and cleanRestartUsed of this call
  answer,    \* the answer being read
  faults

vars == <<serving, part, dest, pc, attempt, restarted, answer, faults>>

\* Mutant: a file of the right length is the right file.
AuthenticByLength(file) == Len(file) = Blocks[Want]

Whole(payload) == [i \in 1 .. Blocks[payload] |-> payload]
Authentic(file) == file = Whole(Want)

TypeOK ==
  /\ serving \in Payloads
  /\ part \in Seq(Payloads)
  /\ dest \in Seq(Payloads) \cup {None}
  /\ pc \in {"idle", "request", "cached", "rejected", "copy", "copied", "last"}
  /\ attempt \in 1 .. MaxAttempts + 1
  /\ restarted \in BOOLEAN
  /\ answer \in Answer \cup {None}
  /\ answer # None => answer.from <= answer.to /\ answer.to <= Blocks[answer.payload]
  /\ faults \in 0 .. MaxFaults

(* A first download, or what earlier ones left: the beginning of something. *)
Init ==
  /\ serving \in Payloads
  /\ \E p \in Payloads : \E n \in 0 .. Blocks[p] : part = SubSeq(Whole(p), 1, n)
  /\ dest = None
  /\ pc = "idle" /\ attempt = 1 /\ restarted = FALSE
  /\ answer = None
  /\ faults = 0

Fault  == faults < MaxFaults /\ faults' = faults + 1
Smooth == UNCHANGED faults

-----------------------------------------------------------------------------
(* The world. *)

(* The asset behind the URL is exchanged. *)
Exchange ==
  /\ Fault
  /\ serving' \in Payloads \ {serving}
  /\ UNCHANGED <<part, dest, pc, attempt, restarted, answer>>

(* Setup is cancelled, which removes the .part file, or dies.  Also an     *)
(* operation on the local files that fails.                                *)
Stop ==
  /\ pc # "idle"
  /\ Fault
  /\ part' \in {part, <<>>}
  /\ pc' = "idle" /\ answer' = None
  /\ UNCHANGED <<serving, dest, attempt, restarted>>

(* downloadVerifiedWithOptions, for a file that is not there yet. *)
Start ==
  /\ pc = "idle" /\ dest = None
  /\ pc' = "request" /\ attempt' = 1 /\ restarted' = FALSE
  /\ UNCHANGED <<serving, part, dest, answer, faults>>

-----------------------------------------------------------------------------
(* How downloadAttempt ends. *)

Retry ==
  /\ attempt' = attempt + 1
  /\ pc' = IF attempt < MaxAttempts THEN "request" ELSE "last"
  /\ answer' = None
  /\ UNCHANGED restarted

CleanRestart ==
  /\ restarted' = TRUE
  /\ pc' = IF restarted THEN "idle" ELSE "request"
  /\ answer' = None
  /\ UNCHANGED attempt

GiveUp == pc' = "idle" /\ answer' = None /\ UNCHANGED <<attempt, restarted>>

(* verifyAndCommitPart: the digest, then the rename. *)
Publish == dest' = part /\ part' = <<>> /\ GiveUp

-----------------------------------------------------------------------------
(* downloadAttempt. *)

Offset == Len(part)

(* The request or its answer is lost, or the server is overloaded. *)
NoAnswer ==
  /\ pc = "request"
  /\ Fault
  /\ Retry
  /\ UNCHANGED <<serving, part, dest>>

(* A status that is not worth another attempt. *)
Refused ==
  /\ pc = "request"
  /\ Fault
  /\ GiveUp
  /\ UNCHANGED <<serving, part, dest>>

(* 200: the whole payload, because no range was asked for or the server    *)
(* ignores ranges.  The .part file is truncated, unless its length says    *)
(* that it may be complete.                                                *)
FullAnswer(sized) ==
  /\ pc = "request"
  /\ answer' = [payload |-> serving, from |-> 0, to |-> Blocks[serving],
                append |-> FALSE, sized |-> sized]
  /\ IF sized /\ Offset > 0 /\ Offset = Blocks[serving]
     THEN pc' = "cached" /\ UNCHANGED part
     ELSE pc' = "copy" /\ part' = <<>>
  /\ UNCHANGED <<serving, dest, attempt, restarted, faults>>

\* Mutant: a cached file with another digest is asked for again as it is.
CachedAsksAgain ==
  /\ pc = "cached"
  /\ \/ Authentic(part) /\ Publish
     \/ ~Authentic(part) /\ pc' = "request" /\ answer' = None
        /\ UNCHANGED <<part, dest, attempt, restarted>>
  /\ UNCHANGED <<serving, faults>>

CachedPart ==
  /\ pc = "cached"
  /\ \/ Authentic(part) /\ Publish
     \/ /\ ~Authentic(part)
        /\ pc' = "copy" /\ part' = <<>>
        /\ UNCHANGED <<dest, attempt, restarted, answer>>
  /\ UNCHANGED <<serving, faults>>

(* 206 for the rest, or (a fault) for less than the rest. *)
RangeAnswer ==
  /\ pc = "request" /\ Offset > 0 /\ Offset < Blocks[serving]
  /\ \E to \in Offset + 1 .. Blocks[serving] :
       /\ answer' = [payload |-> serving, from |-> Offset, to |-> to,
                     append |-> TRUE, sized |-> TRUE]
       /\ IF to = Blocks[serving] THEN Smooth ELSE Fault
  /\ pc' = "copy"
  /\ UNCHANGED <<serving, part, dest, attempt, restarted>>

(* 206 for another range than the one asked for. *)
WrongRange ==
  /\ pc = "request"
  /\ Fault
  /\ part' = <<>>
  /\ Retry
  /\ UNCHANGED <<serving, dest>>

(* 416: there is nothing behind the .part file. *)
RangeRejected ==
  /\ pc = "request" /\ Offset > 0 /\ Offset >= Blocks[serving]
  /\ pc' = "rejected"
  /\ UNCHANGED <<serving, part, dest, attempt, restarted, answer, faults>>

\* Mutant: a rejected .part file is the end.
RejectedGivesUp ==
  /\ pc = "rejected"
  /\ IF Authentic(part) THEN Publish ELSE GiveUp /\ UNCHANGED <<part, dest>>
  /\ UNCHANGED <<serving, faults>>

RejectedPart ==
  /\ pc = "rejected"
  /\ \/ Authentic(part) /\ Publish
     \/ ~Authentic(part) /\ part' = <<>> /\ CleanRestart /\ UNCHANGED dest
  /\ UNCHANGED <<serving, faults>>

(* copyDownloadBody. *)
CopyBlock ==
  /\ pc = "copy" /\ answer.from < answer.to
  /\ part' = Append(part, answer.payload)
  /\ answer' = [answer EXCEPT !.from = @ + 1]
  /\ UNCHANGED <<serving, dest, pc, attempt, restarted, faults>>

(* The connection breaks, stalls, or (of unknown length) ends too early.   *)
BodyBreaks ==
  /\ pc = "copy" /\ answer.from < answer.to
  /\ Fault
  /\ \/ Retry
     \/ ~answer.sized /\ pc' = "copied" /\ UNCHANGED <<attempt, restarted, answer>>
  /\ UNCHANGED <<serving, part, dest>>

(* The end of the body; a range that was shorter than the rest goes on     *)
(* with the next attempt.                                                  *)
BodyEnds ==
  /\ pc = "copy" /\ answer.from = answer.to
  /\ IF answer.to < Blocks[answer.payload]
     THEN Retry
     ELSE pc' = "copied" /\ UNCHANGED <<attempt, restarted, answer>>
  /\ UNCHANGED <<serving, part, dest, faults>>

(* Verified; a resumed file with another digest is downloaded again from   *)
(* the start, once.                                                        *)
CopiedPart ==
  /\ pc = "copied"
  /\ \/ Authentic(part) /\ Publish
     \/ /\ ~Authentic(part)
        /\ part' = <<>>
        /\ IF answer.append THEN CleanRestart ELSE GiveUp
        /\ UNCHANGED dest
  /\ UNCHANGED <<serving, faults>>

(* After the last attempt: what an earlier run left may be complete. *)
LastResort ==
  /\ pc = "last"
  /\ IF Offset > 0 /\ Authentic(part) THEN Publish ELSE GiveUp /\ UNCHANGED <<part, dest>>
  /\ UNCHANGED <<serving, faults>>

-----------------------------------------------------------------------------
Honest == \/ FullAnswer(TRUE) \/ RangeAnswer \/ RangeRejected
          \/ CachedPart \/ RejectedPart \/ CopyBlock \/ BodyEnds \/ CopiedPart \/ LastResort

Odd == NoAnswer \/ Refused \/ FullAnswer(FALSE) \/ WrongRange \/ BodyBreaks

Next == Start \/ Honest \/ Odd \/ Exchange \/ Stop

Spec == Init /\ [][Next]_vars

(* The server answers and the launcher reads. *)
FairSpec == Spec /\ WF_vars(Honest)

-----------------------------------------------------------------------------
(* Properties. *)

(* Whatever payloads the .part file was put together from over attempts,   *)
(* launches and exchanges on the server, only the wanted one is published. *)
PublishedIsAuthentic == dest \in {None, Whole(Want)}

(* A complete answer is never appended to: the file under construction     *)
(* never outgrows the payload it is read from.                             *)
PartFits ==
  pc = "copy" => /\ Len(part) = answer.from
                 /\ Len(part) <= Blocks[answer.payload]

(* "Resumed download did not match the current payload": the remains of    *)
(* another payload never stand in the way.  Once the server holds the      *)
(* wanted payload and nothing more fails, a download gets it.              *)
StalePartIsOvercome ==
  pc = "request" /\ attempt = 1 /\ ~restarted /\ faults = MaxFaults /\ serving = Want
    ~> dest # None

(* A call always returns, however the server behaves. *)
DownloadEnds == pc # "idle" ~> pc = "idle"

=============================================================================
