----------------------------- MODULE Route4Ledger -----------------------------
(***************************************************************************)
(* The network event ledger of route 4 as route4_contract.validate_ledger  *)
(* reads it: records of attempts and terminal records of logical requests, *)
(* in the order in which they were appended, by whomever.  One step is one *)
(* record, or the end of the ledger, which may be where a run was cut off. *)
(***************************************************************************)
EXTENDS Integers, Sequences

CONSTANTS LogicalRequests,
          OfferedAttempts,   \* attempt records the ledger may contain
          OfferedTerminals   \* terminal records the ledger may contain

MaxAttempts == 3
Responses == {"success", "retryable_error", "final_error"}
Silences == {"retryable_silence", "final_silence"}
Outcomes == Responses \union Silences
NextActions == {"accept", "retry", "nonretryable", "exhausted"}
TerminalStates == {"SUCCEEDED", "NONRETRYABLE_FAILED", "RETRIES_EXHAUSTED"}

(* `sound` stands for the checks of a record's own fields, hashes and       *)
(* identities; `prior` is the ordinal of the attempt it names, 0 for none;  *)
(* `prefix` the number of records its hash of the ledger covers.            *)
AttemptRecords ==
    [request : LogicalRequests, ordinal : Nat, prior : Nat, outcome : Outcomes,
     bytes : BOOLEAN, action : NextActions, sound : BOOLEAN]
TerminalRecords ==
    [request : LogicalRequests, ids : Seq(Nat), prefix : Nat, response : BOOLEAN,
     bytes : BOOLEAN, checked : BOOLEAN, state : TerminalStates, accepted : BOOLEAN,
     sound : BOOLEAN]

ASSUME OfferedAssumption ==
    OfferedAttempts \subseteq AttemptRecords /\ OfferedTerminals \subseteq TerminalRecords

VARIABLES attempts,       \* request -> its attempts so far (attempts_by_request)
          terminals,      \* request -> its terminal record or NoTerminal
          prefixLength,   \* length of prefix_records
          ledgerVerdict   \* "reading", "refused" or "accepted"

route4Vars == <<attempts, terminals, prefixLength, ledgerVerdict>>

NoTerminal == [state |-> "none"]
LastOf(got) == got[Len(got)]

Retryable(o) == o \in {"retryable_error", "retryable_silence"}

(* The frozen retry policy. *)
ExpectedAction(o, ordinal) ==
    IF o = "success" THEN "accept"
    ELSE IF ~Retryable(o) THEN "nonretryable"
    ELSE IF ordinal < MaxAttempts THEN "retry" ELSE "exhausted"

ValidAttempt(r) ==
    /\ r.sound /\ r.ordinal \in 1 .. MaxAttempts /\ (r.ordinal = 1 <=> r.prior = 0)
    /\ r.bytes => r.outcome \in Responses
    /\ r.action = ExpectedAction(r.outcome, r.ordinal)

(* Any number of attempts in their order. *)
AttemptCounted(r) == r.ordinal = Len(attempts[r.request]) + 1

AttemptFollows(r) ==
    LET got == attempts[r.request]
    IN  /\ r.ordinal = Len(got) + 1
        /\ got # <<>> => r.prior = LastOf(got).ordinal /\ LastOf(got).action = "retry"

ValidTerminal(t) ==
    /\ t.sound /\ Len(t.ids) \in 1 .. MaxAttempts
    /\ t.checked => t.bytes
    /\ t.state = "SUCCEEDED" <=> t.accepted

StateAfter(action) ==
    IF action = "accept" THEN "SUCCEEDED"
    ELSE IF action = "nonretryable" THEN "NONRETRYABLE_FAILED"
    ELSE IF action = "exhausted" THEN "RETRIES_EXHAUSTED" ELSE "none"

TerminalFollows(t) ==
    LET got == attempts[t.request]
    IN  /\ terminals[t.request] = NoTerminal /\ got # <<>>
        /\ t.ids = [i \in 1 .. Len(got) |-> got[i].ordinal] /\ t.prefix = prefixLength
        /\ t.response <=> \E i \in 1 .. Len(got) : got[i].outcome \in Responses
        /\ t.bytes <=> \E i \in 1 .. Len(got) : got[i].bytes
        /\ t.state = StateAfter(LastOf(got).action)

Refused ==
    {r \in OfferedAttempts : ~(ValidAttempt(r) /\ AttemptFollows(r))}
      \union {t \in OfferedTerminals : ~(ValidTerminal(t) /\ TerminalFollows(t))}

ReadAttempt(r) ==
    /\ ledgerVerdict = "reading" /\ ValidAttempt(r) /\ AttemptFollows(r)
    /\ attempts' = [attempts EXCEPT ![r.request] = Append(@, r)]
    /\ prefixLength' = prefixLength + 1 /\ UNCHANGED <<terminals, ledgerVerdict>>

ReadTerminal(t) ==
    /\ ledgerVerdict = "reading" /\ ValidTerminal(t) /\ TerminalFollows(t)
    /\ terminals' = [terminals EXCEPT ![t.request] = t]
    /\ prefixLength' = prefixLength + 1 /\ UNCHANGED <<attempts, ledgerVerdict>>

RefuseRecord ==
    /\ ledgerVerdict = "reading" /\ Refused # {} /\ ledgerVerdict' = "refused"
    /\ UNCHANGED <<attempts, terminals, prefixLength>>

(* Nothing follows: a request without a terminal record is refused.         *)
EndLedger ==
    /\ ledgerVerdict = "reading"
    /\ ledgerVerdict' =
         IF \A q \in LogicalRequests : attempts[q] # <<>> => terminals[q] # NoTerminal
         THEN "accepted" ELSE "refused"
    /\ UNCHANGED <<attempts, terminals, prefixLength>>

Route4Init ==
    /\ attempts = [q \in LogicalRequests |-> <<>>]
    /\ terminals = [q \in LogicalRequests |-> NoTerminal]
    /\ prefixLength = 0 /\ ledgerVerdict = "reading"

Route4Next ==
    \/ \E r \in OfferedAttempts : ReadAttempt(r)
    \/ \E t \in OfferedTerminals : ReadTerminal(t)
    \/ RefuseRecord \/ EndLedger

Route4Spec == Route4Init /\ [][Route4Next]_route4Vars

-----------------------------------------------------------------------------
(* What a request came to, from the outcomes alone.                         *)
Concluded(got) ==
    IF LastOf(got).outcome = "success" THEN "SUCCEEDED"
    ELSE IF Retryable(LastOf(got).outcome) THEN "RETRIES_EXHAUSTED"
    ELSE "NONRETRYABLE_FAILED"

(* Whatever records a ledger holds and wherever it is cut off, what was     *)
(* read without refusal follows the retry policy: at most three attempts,   *)
(* all but the last worth a retry, none after the request's terminal        *)
(* record, which tells what the outcomes alone tell; retries are exhausted  *)
(* only after the third; and an accepted ledger leaves no request open.     *)
RequestSound(q) ==
    LET got == attempts[q]
        t == terminals[q]
    IN  /\ Len(got) <= MaxAttempts
        /\ \A i \in 1 .. Len(got) - 1 : Retryable(got[i].outcome)
        /\ t # NoTerminal =>
              /\ Len(got) = Len(t.ids) /\ got # <<>> /\ t.state = Concluded(got)
              /\ t.state = "RETRIES_EXHAUSTED" => Len(got) = MaxAttempts
              /\ t.response <=> \E i \in 1 .. Len(got) : got[i].outcome \in Responses
        /\ ledgerVerdict = "accepted" /\ got # <<>> => t # NoTerminal

LedgerTellsOutcome == \A q \in LogicalRequests : RequestSound(q)
=============================================================================
