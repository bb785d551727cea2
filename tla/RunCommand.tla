----------------------------- MODULE RunCommand -----------------------------
(***************************************************************************)
(* seed-hunter run (cmd/run.go): finding the session to go on with,        *)
(* inheriting its configuration, the loop over the positions and the move  *)
(* from the sweep to the walk.  A behaviour is a history of processes, one *)
(* at a time, on one database; every process is invoked with some flags    *)
(* and may be cut off anywhere.                                            *)
(*                                                                         *)
(* Run and Walk are abstracted to what they do to the row of their session *)
(* (SweepPipeline and KeyspaceWalk have the rest): they move its progress  *)
(* on and end it.  Left out: the attempts, rate, wordlist and workers,     *)
(* which decide nothing here, and the environment variables, which only    *)
(* change the defaults.                                                    *)
(***************************************************************************)
EXTENDS Repository, Cursor, Positions

CONSTANTS
    Templates,        \* templates of 12 words of the wordlist
    BadTemplates,     \* of 12 words, one of them not in the wordlist
    Settings,         \* script type, API and number of addresses
    ValidSettings,    \* those there is such an API and script type for
    DefaultSettings,
    DefaultPositions, \* the positions swept when nothing says otherwise
    None,             \* an empty template, a flag that is not given
    FlagSets,         \* the command lines in use
    WordlistSize,
    Clock,
    Faults,           \* "database", "cancel", "crash"
    MaxRuns           \* bound: processes

(* The --positions text of a walk session, "".                             *)
NoPositions == <<>>
WalkTemplate == "__walk__"

Flags == [template: Templates \cup BadTemplates \cup {None},
          positions: Seq(Token) \cup {None},
          settings: Settings \cup {None},
          reset: BOOLEAN, noWalk: BOOLEAN, skipSweep: BOOLEAN]

ASSUME RunAssumption ==
    /\ FlagSets \subseteq Flags
    /\ DefaultSettings \in ValidSettings /\ ValidSettings \subseteq Settings
    /\ DefaultPositions \in Seq(Token) /\ ~Rejects(DefaultPositions)
    /\ WordlistSize \in Nat \ {0} /\ MaxRuns \in Nat
    /\ Clock \subseteq Nat
    /\ None \notin Templates \cup BadTemplates \cup Settings
    /\ WalkTemplate \notin Templates \cup BadTemplates

(* What the columns of a session can hold.                                 *)
AllTemplates == Templates \cup BadTemplates
Texts == {DefaultPositions} \cup ({f.positions : f \in FlagSets} \ {None})
ASSUME ColumnAssumption ==
    /\ [template: AllTemplates, position: WordPositions, settings: Settings]
         \subseteq Signatures
    /\ [template: {WalkTemplate}, position: {-1}, settings: Settings] \subseteq Signatures
    /\ [template: AllTemplates \cup {None}, positions: Texts \cup {NoPositions}]
         \subseteq Metas
    /\ Odometers \subseteq Cursors /\ NoCursor \in Cursors

VARIABLES
    pc,        \* where runE is: see Pcs
    flags,     \* the command line
    cfg,       \* template, positions and settings in force
    at,        \* index of the next position in the list of cfg
    last,      \* the session LatestResumable returned, until another is begun
    open,      \* the session being worked on, 0 for none
    cancelled, \* ctx is done
    runs,      \* processes so far
    given      \* history: the flags given to any process

vars == <<storage, pc, flags, cfg, at, last, open, cancelled, runs, given>>

Startup == {"lookup", "retire", "begin", "walk retire", "walk begin"}
Pcs == Startup \cup {"idle", "next", "sweep", "walk", "walk end"}

NoFlags == [template |-> None, positions |-> None, settings |-> None,
            reset |-> FALSE, noWalk |-> FALSE, skipSweep |-> FALSE]
NoCfg == [template |-> None, positions |-> NoPositions, settings |-> DefaultSettings]

Init ==
    /\ StorageInit
    /\ pc = "idle" /\ flags = NoFlags /\ cfg = NoCfg
    /\ at = 1 /\ last = 0 /\ open = 0 /\ cancelled = FALSE
    /\ runs = 0 /\ given = {}

(* runE returns and the process is gone.                                   *)
Return ==
    /\ pc' = "idle" /\ flags' = NoFlags /\ cfg' = NoCfg
    /\ at' = 1 /\ last' = 0 /\ open' = 0 /\ cancelled' = FALSE
    /\ UNCHANGED <<runs, given>>

-----------------------------------------------------------------------------
(* Before the sweep.                                                       *)

Given(f) == {name \in DOMAIN f : f[name] # NoFlags[name]}

Invoke(f) ==
    /\ pc = "idle" /\ runs < MaxRuns
    /\ pc' = "lookup" /\ flags' = f
    /\ runs' = runs + 1 /\ given' = given \cup Given(f)
    /\ UNCHANGED <<storage, cfg, at, last, open, cancelled>>

(* The session the process goes on with, 0 if there is none.               *)
Latest == IF flags.reset \/ ~SomeResumable THEN 0 ELSE LatestResumable

(* A flag wins over the session, and the session over the default; a walk  *)
(* has neither template nor positions to hand down.                        *)
Inherit(flag, inherited, nothing, default) ==
    IF flag # None THEN flag ELSE IF inherited # nothing THEN inherited ELSE default

OwnSettings(f, id) == \* mutant of inheritFromSession
    LET meta == IF id = 0 THEN NoCfg ELSE sessions[id].meta
    IN  [template  |-> Inherit(f.template, meta.template, None, None),
         positions |-> Inherit(f.positions, meta.positions, NoPositions, DefaultPositions),
         settings  |-> Inherit(f.settings, None, None, DefaultSettings)]
inheritFromSession(f, id) ==
    LET meta == IF id = 0 THEN NoCfg ELSE sessions[id].meta
        used == IF id = 0 THEN None ELSE sessions[id].sig.settings
    IN  [template  |-> Inherit(f.template, meta.template, None, None),
         positions |-> Inherit(f.positions, meta.positions, NoPositions, DefaultPositions),
         settings  |-> Inherit(f.settings, used, None, DefaultSettings)]

(* Validate does not look the words of the template up.                    *)
Validate(c) == ~Rejects(c.positions) /\ c.settings \in ValidSettings

(* A template nobody gave is generated: one that was never swept.          *)
resolveTemplate(template) ==
    IF template # None THEN {template}
    ELSE {t \in Templates : \A id \in DOMAIN sessions : sessions[id].meta.template # t}

HeadOfList(positions, current) == 1 \* mutant of startIndexInPositions
startIndexInPositions(list, current) ==
    IF \E i \in DOMAIN list : list[i] = current
    THEN CHOOSE i \in DOMAIN list : list[i] = current
    ELSE 1

IsWalk(id) == id # 0 /\ sessions[id].mode = "walk"

StartOf(walk) == IF flags.reset THEN (IF walk THEN "walk retire" ELSE "retire")
                 ELSE IF walk THEN "walk begin" ELSE "begin"

(* LatestResumable is a query on ctx; --reset does without it.             *)
LookedUp == pc = "lookup" /\ (cancelled => flags.reset)

(* An invalid configuration, of the flags or of the session.               *)
Reject ==
    /\ LookedUp
    /\ ~Validate(inheritFromSession(flags, Latest))
    /\ Return /\ UNCHANGED storage

Lookup ==
    /\ LookedUp
    /\ last' = Latest
    /\ LET c == inheritFromSession(flags, Latest)
           inheritedPosition == IF Latest = 0 THEN -1 ELSE sessions[Latest].sig.position
       IN  /\ Validate(c)
           /\ IF flags.skipSweep \/ IsWalk(Latest)
              THEN /\ cfg' = c /\ pc' = StartOf(TRUE)
                   /\ UNCHANGED at
              ELSE /\ \E t \in resolveTemplate(c.template) : cfg' = [c EXCEPT !.template = t]
                   /\ at' = startIndexInPositions(ParsePositions(c.positions),
                                                  inheritedPosition)
                   /\ pc' = "next"
    /\ UNCHANGED <<storage, flags, open, cancelled, runs, given>>

-----------------------------------------------------------------------------
(* The loop over the positions.                                            *)

positions == ParsePositions(cfg.positions)

AlwaysWalk == ~flags.noWalk \* mutant of WalkNext
WalkNext == ~flags.noWalk /\ ~cancelled

SweepComplete ==
    /\ pc = "next" /\ at > Len(positions)
    /\ IF WalkNext
       THEN /\ pc' = StartOf(TRUE)
            /\ UNCHANGED <<flags, cfg, at, last, open, cancelled, runs, given>>
       ELSE Return
    /\ UNCHANGED storage

SweepInterrupted ==
    /\ pc = "next" /\ at <= Len(positions) /\ cancelled
    /\ Return /\ UNCHANGED storage

NextPosition ==
    /\ pc = "next" /\ at <= Len(positions) /\ ~cancelled
    /\ pc' = StartOf(FALSE)
    /\ UNCHANGED <<storage, flags, cfg, at, last, open, cancelled, runs, given>>

SweepSig == [template |-> cfg.template, position |-> positions[at],
             settings |-> cfg.settings]

RawFlag == IF flags.positions # None THEN flags.positions ELSE DefaultPositions
    \* mutant of PositionsSpec
PositionsSpec == cfg.positions

Retire ==
    /\ pc = "retire" /\ ~cancelled
    /\ MarkPausedAsCompleted(SweepSig)
    /\ pc' = "begin"
    /\ UNCHANGED <<flags, cfg, at, last, open, cancelled, runs, given>>

Opened(sig) ==
    /\ open' = BeginSessionId(sig) /\ last' = 0
    /\ UNCHANGED <<flags, cfg, at, cancelled, runs, given>>

BeginSweep(now) ==
    /\ pc = "begin" /\ ~cancelled
    /\ BeginSession([sig |-> SweepSig, mode |-> "sweep", cursor |-> NoCursor,
                     meta |-> [template |-> cfg.template, positions |-> PositionsSpec]],
                    now)
    /\ pc' = "sweep"
    /\ Opened(SweepSig)

(* A flush of Run.                                                         *)
SweepOn ==
    /\ pc = "sweep" /\ cfg.template \notin BadTemplates
    /\ \E i \in sessions[open].last + 1 .. WordlistSize - 1 : Checkpoint(open, i)
    /\ UNCHANGED <<pc, flags, cfg, at, last, open, cancelled, runs, given>>

Exhausted(id) == sessions[id].last = WordlistSize - 1

(* What Run may say of a session: with words left, only a cancelled run    *)
(* ends without an error, and it may even be taken for a completed one.    *)
FinalStatuses ==
    IF Exhausted(open) THEN {"completed"}
    ELSE IF cancelled THEN {"paused", "completed"} ELSE {}

SweepEnd ==
    /\ pc = "sweep" /\ cfg.template \notin BadTemplates
    /\ \E status \in FinalStatuses :
         /\ EndSession(open, status)
         /\ IF status = "paused" THEN Return
            ELSE /\ pc' = "next" /\ at' = at + 1 /\ open' = 0
                 /\ UNCHANGED <<flags, cfg, last, cancelled, runs, given>>

(* The generator finds the word that is not in the list; the session stays *)
(* as it was begun.                                                        *)
GenerateFails ==
    /\ pc = "sweep" /\ cfg.template \in BadTemplates
    /\ Return /\ UNCHANGED storage

-----------------------------------------------------------------------------
(* The walk.                                                               *)

WalkSig == [template |-> WalkTemplate, position |-> -1, settings |-> cfg.settings]

WalkRetire ==
    /\ pc = "walk retire" /\ ~cancelled
    /\ MarkPausedAsCompleted(WalkSig)
    /\ pc' = "walk begin"
    /\ UNCHANGED <<flags, cfg, at, last, open, cancelled, runs, given>>

NeverResumed == FALSE \* mutant of WasResumed
WasResumed == SomeResumable /\ sessions[LatestResumable].sig = WalkSig

LastCursor == ParseCursor(sessions[LatestResumable].cursor)

BeginWalk(now) ==
    /\ pc = "walk begin" /\ ~cancelled
    /\ ~ (WasResumed /\ Overflows(LastCursor))
    /\ BeginSession([sig |-> WalkSig, mode |-> "walk",
                     cursor |-> String(IF WasResumed THEN Inc(LastCursor) ELSE Zero),
                     meta |-> [template |-> None, positions |-> NoPositions]],
                    now)
    /\ pc' = "walk"
    /\ Opened(WalkSig)

WalkExhausted ==
    /\ pc = "walk begin" /\ ~cancelled
    /\ WasResumed /\ Overflows(LastCursor)
    /\ Return /\ UNCHANGED storage

(* A flush of Walk.                                                        *)
WalkOn ==
    /\ pc = "walk"
    /\ \E c \in Odometers :
         Precedes(sessions[open].cursor, c) /\ CheckpointCursor(open, String(c))
    /\ UNCHANGED <<pc, flags, cfg, at, last, open, cancelled, runs, given>>

(* The flush after the increment that wrapped.                             *)
WalkWrap ==
    /\ pc = "walk"
    /\ CheckpointCursor(open, String(Zero))
    /\ pc' = "walk end"
    /\ UNCHANGED <<flags, cfg, at, last, open, cancelled, runs, given>>

WalkOver == pc = "walk end" \/ Overflows(sessions[open].cursor)

WalkEnd ==
    /\ \/ pc \in {"walk", "walk end"} /\ WalkOver /\ EndSession(open, "completed")
       \/ pc = "walk" /\ cancelled /\ EndSession(open, "paused")
    /\ Return

-----------------------------------------------------------------------------
(* Errors, and the environment.                                            *)

(* A statement fails: runE returns, the row stays as it is.                *)
RunError ==
    /\ \/ pc \in Startup \cup {"sweep", "walk", "walk end"} /\ "database" \in Faults
       \/ pc \in Startup /\ cancelled /\ ~ (pc = "lookup" /\ flags.reset)
    /\ Return /\ UNCHANGED storage

Cancel ==
    /\ "cancel" \in Faults /\ pc # "idle" /\ ~cancelled
    /\ cancelled' = TRUE
    /\ UNCHANGED <<storage, pc, flags, cfg, at, last, open, runs, given>>

Crash ==
    /\ "crash" \in Faults /\ pc # "idle"
    /\ Return /\ UNCHANGED storage

Rest == pc = "idle" /\ runs = MaxRuns /\ UNCHANGED vars

Next ==
    \/ \E f \in FlagSets : Invoke(f)
    \/ Lookup \/ Reject
    \/ SweepComplete \/ SweepInterrupted \/ NextPosition
    \/ Retire \/ \E now \in Clock : BeginSweep(now)
    \/ SweepOn \/ SweepEnd \/ GenerateFails
    \/ WalkRetire \/ \E now \in Clock : BeginWalk(now)
    \/ WalkExhausted \/ WalkOn \/ WalkWrap \/ WalkEnd
    \/ RunError
    \/ Cancel \/ Crash \/ Rest

Spec == Init /\ [][Next]_vars
=============================================================================
