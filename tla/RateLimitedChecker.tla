------------------------- MODULE RateLimitedChecker -------------------------
(***************************************************************************)
(* The balance checker behind the pipelines (internal/checker): a token    *)
(* bucket of burst one in front of a client that sends one request per     *)
(* address.  One caller at a time; Run and Walk each have one goroutine    *)
(* that looks up.                                                          *)
(*                                                                         *)
(* Time is counted in units of which Interval make a token.  The bucket    *)
(* (golang.org/x/time/rate) and the HTTP client are modelled from their    *)
(* use here.  A balance is the number of funded addresses.                 *)
(***************************************************************************)
EXTENDS Integers

CONSTANTS
    NAddresses,
    Interval,
    Candidates,
    Holding,   \* Holding[c]: which addresses of candidate c hold a balance
    Faults     \* "api": a request may fail; "cancel": ctx may be cancelled

ASSUME CheckerAssumption ==
    /\ NAddresses \in Nat \ {0} /\ Interval \in Nat \ {0}
    /\ Holding \in [Candidates -> SUBSET (1 .. NAddresses)]

VARIABLES
    credit,    \* time the bucket has saved up, Interval at most
    call,      \* the call of CheckAddresses under way
    cancelled, \* ctx is done
    watch      \* history: what upstream saw since an observer began to count

checking == <<credit, call, watch>>

NoCall == [pc |-> "none", of |-> CHOOSE c \in Candidates : TRUE,
           fetched |-> 0, total |-> 0, failed |-> FALSE]
CallPcs == {"none", "wait", "fetch", "reply", "returned"}
NotWatching == [on |-> FALSE, time |-> 0, requests |-> 0]

CheckerInit ==
    /\ credit = Interval
    /\ call = NoCall
    /\ cancelled = FALSE
    /\ watch = NotWatching

-----------------------------------------------------------------------------
(* Wait looks at ctx before it asks for a token.                           *)
CheckAddresses(c) ==
    /\ call.pc = "none"
    /\ call' = [NoCall EXCEPT !.of = c, !.pc = IF cancelled THEN "returned" ELSE "wait",
                              !.failed = cancelled]
    /\ UNCHANGED <<credit, cancelled, watch>>

KeepToken == credit \* mutant of AfterToken
AfterToken == 0

TakeToken ==
    /\ call.pc = "wait" /\ credit = Interval
    /\ credit' = AfterToken
    /\ call' = [call EXCEPT !.pc = "fetch"]
    /\ UNCHANGED <<cancelled, watch>>

(* The reservation is given back.                                          *)
WaitCancelled ==
    /\ call.pc = "wait" /\ cancelled
    /\ call' = [call EXCEPT !.pc = "returned", !.failed = TRUE]
    /\ UNCHANGED <<credit, cancelled, watch>>

(* fetchEsploraTotal goes on with the next address, whatever the last one  *)
(* brought.                                                                *)
Retry(fetched, failed) == IF failed THEN fetched ELSE fetched + 1 \* mutant of NextAddress
NextAddress(fetched, failed) == fetched + 1

Fetched(balance, failed) ==
    LET fetched == NextAddress(call.fetched, failed)
    IN  call' = [call EXCEPT !.fetched = fetched,
                             !.total = @ + balance,
                             !.failed = @ \/ failed,
                             !.pc = IF fetched = NAddresses THEN "returned" ELSE "fetch"]

SendRequest ==
    /\ call.pc = "fetch" /\ ~cancelled
    /\ call' = [call EXCEPT !.pc = "reply"]
    /\ watch' = [watch EXCEPT !.requests = IF watch.on THEN @ + 1 ELSE 0]
    /\ UNCHANGED <<credit, cancelled>>

(* A request is not sent on a context that is done.                        *)
RequestRefused ==
    /\ call.pc = "fetch" /\ cancelled
    /\ Fetched(0, TRUE)
    /\ UNCHANGED <<credit, cancelled, watch>>

Balance(c, address) == IF address \in Holding[c] THEN 1 ELSE 0

Answered ==
    /\ call.pc = "reply"
    /\ Fetched(Balance(call.of, call.fetched + 1), FALSE)
    /\ UNCHANGED <<credit, cancelled, watch>>

(* 429, another status, a body that does not decode, the timeout of the    *)
(* client, or ctx.                                                         *)
RequestFails ==
    /\ call.pc = "reply" /\ (cancelled \/ "api" \in Faults)
    /\ Fetched(0, TRUE)
    /\ UNCHANGED <<credit, cancelled, watch>>

Lookup ==
    \/ TakeToken \/ WaitCancelled
    \/ SendRequest \/ RequestRefused \/ Answered \/ RequestFails

(* What CheckAddresses returned: a balance, or the joined errors.          *)
PartialTotal == \* mutant of Result
    IF call.total > 0 THEN "funded" ELSE IF call.failed THEN "error" ELSE "empty"
Result ==
    IF call.failed THEN "error" ELSE IF call.total > 0 THEN "funded" ELSE "empty"

-----------------------------------------------------------------------------
(* Time passes.                                                            *)
Tick ==
    /\ credit < Interval
    /\ credit' = credit + 1
    /\ watch' = [watch EXCEPT !.time = IF watch.on THEN @ + 1 ELSE 0]
    /\ UNCHANGED <<call, cancelled>>
=============================================================================
