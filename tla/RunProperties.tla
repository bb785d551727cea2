--------------------------- MODULE RunProperties ----------------------------
(***************************************************************************)
(* What seed-hunter run promises over a history of processes (see          *)
(* RunCommand).                                                            *)
(***************************************************************************)
EXTENDS RunCommand

IsConfig(c) ==
    /\ c.template \in Templates \cup BadTemplates \cup {None}
    /\ c.settings \in Settings /\ c.positions \in Texts \cup {NoPositions}

(* The variables have their types; a session is open exactly while Run or  *)
(* Walk works on it, and it is marked running.                             *)
TypeOK ==
    /\ lastId \in Nat /\ DOMAIN sessions = 1 .. lastId
    /\ \A id \in DOMAIN sessions : sessions[id] \in Row
    /\ attempts = <<>>
    /\ pc \in Pcs /\ flags \in FlagSets \cup {NoFlags} /\ IsConfig(cfg)
    /\ pc \in {"retire", "begin", "sweep"} => at \in DOMAIN positions
    /\ last \in {0} \cup DOMAIN sessions
    /\ open # 0 <=> pc \in {"sweep", "walk", "walk end"}
    /\ open # 0 => open \in DOMAIN sessions /\ sessions[open].status = "running"
    /\ cancelled \in BOOLEAN /\ runs \in 0 .. MaxRuns
    /\ given \subseteq DOMAIN NoFlags

Identity == {"template", "positions", "settings"}

(* The texts of --positions that Validate lets pass, and what they list.   *)
ValidTexts == {text \in Texts : ~Rejects(text)}
Listed == [text \in ValidTexts |-> Range(ListOf(text))]
DefaultList == ParsePositions(DefaultPositions)

-----------------------------------------------------------------------------
(* A process that is not told otherwise goes on with the latest session    *)
(* there is to resume: that is the first one it begins, whatever flags the *)
(* processes before it had.  (last is reset when a session is begun.)      *)
ResumesLatest ==
    [][last # 0 /\ open' # 0 /\ open = 0
         /\ Given(flags) \cap (Identity \cup {"skipSweep"}) = {}
       => open' = last]_vars

(* With one list of positions for all processes and no template given, the *)
(* walk follows a sweep only when every position of the list is exhausted  *)
(* for the template, over however many interrupted processes.              *)
WalkAfterWholeSweep ==
    [][given \cap {"template", "positions"} = {}
         /\ pc = "next" /\ pc' = StartOf(TRUE)
       => \A i \in DOMAIN positions :
            \E id \in DOMAIN sessions :
                /\ sessions[id].sig.template = cfg.template
                /\ sessions[id].sig.position = positions[i]
                /\ Exhausted(id)]_vars

(* Processes run without flags leave at most one session to resume, so     *)
(* none is ever forgotten.                                                 *)
NothingForgotten ==
    given \subseteq {"noWalk"} =>
        \A a, b \in DOMAIN sessions : Resumable(a) /\ Resumable(b) => a = b

(* Whatever row a process leaves, the positions and the settings that a    *)
(* later one inherits from it pass ParsePositions and Validate, and the    *)
(* position of a sweep is in the list it hands down, so that the resume    *)
(* finds it there and does not begin at the head.  (The words of the       *)
(* template are not looked up by then: see GenerateFails.)                 *)
SessionsHandDown ==
    pc = "idle" =>
        \A id \in DOMAIN sessions :
            LET c == inheritFromSession(NoFlags, id)
            IN  /\ c.positions \in ValidTexts /\ c.settings \in ValidSettings
                /\ sessions[id].mode = "sweep" =>
                     sessions[id].sig.position \in Listed[c.positions]

(* The list of positions that a process works on, parsed from the text in  *)
(* force, given or inherited, holds every position the text names, in its  *)
(* order, and none twice.                                                  *)
EachPositionOnce ==
    pc = "next" =>
        LET list == positions
            text == cfg.positions
            place(p) == CHOOSE i \in DOMAIN list : list[i] = p
        IN  /\ Range(list) = UNION {text[k][1] .. text[k][2] : k \in DOMAIN text}
            /\ Len(list) = Cardinality(Range(list))
            /\ \A k \in 2 .. Len(text) : place(text[k - 1][2]) + 1 = place(text[k][1])

(* Processes run without flags never take a walk back, until it wraps.     *)
WalkForward ==
    [][given \subseteq {"noWalk"} =>
         \A id \in DOMAIN sessions :
             sessions[id].mode = "walk" /\ pc' # "walk end" =>
                Upto(sessions[id].cursor) \subseteq Upto(sessions'[id].cursor)]_vars

-----------------------------------------------------------------------------
(* "With no flags it picks up exactly where you left off": once a position *)
(* of a template is exhausted, the positions that follow it in its list    *)
(* are swept before another template is begun.                             *)
SweepGoesOn ==
    \A a, b \in DOMAIN sessions :
        /\ a < b /\ Exhausted(a)
        /\ sessions[a].mode = "sweep" /\ sessions[b].mode = "sweep"
        /\ sessions[a].sig.template # sessions[b].sig.template
        => \A position \in Range(ParsePositions(sessions[a].meta.positions)) :
             \E id \in DOMAIN sessions :
                /\ sessions[id].sig.template = sessions[a].sig.template
                /\ sessions[id].sig.position = position

-----------------------------------------------------------------------------
(* The invariant of the proofs.                                            *)

(* What a session hands down is valid, and leads back to its signature.    *)
RowOK(row) ==
    /\ row.mode = "sweep" =>
         /\ row.meta \in [template: AllTemplates, positions: ValidTexts]
         /\ row.sig \in [template: {row.meta.template},
                         position: Listed[row.meta.positions],
                         settings: ValidSettings]
    /\ row.mode = "walk" =>
         /\ row.meta = [template |-> None, positions |-> NoPositions]
         /\ row.sig \in [template: {WalkTemplate}, position: {-1},
                         settings: ValidSettings]
         /\ row.cursor \in Odometers

RowsOK == \A id \in DOMAIN sessions : RowOK(sessions[id])

InSweep == pc \in {"next", "retire", "begin", "sweep"}
InWalk == pc \in {"walk retire", "walk begin", "walk", "walk end"}

(* The configuration in force, and the session it is for.                  *)
Control ==
    /\ Given(flags) \subseteq given
    /\ pc = "idle" => flags = NoFlags /\ cfg = NoCfg /\ ~cancelled
    /\ pc = "lookup" \/ open # 0 \/ flags.reset => last = 0
    /\ pc \in {"retire", "walk retire"} => flags.reset
    /\ InSweep => /\ cfg.template \in AllTemplates
                  /\ cfg.positions \in ValidTexts /\ cfg.settings \in ValidSettings
                  /\ at \in 1 .. Len(positions) + 1
    /\ InWalk => cfg.settings \in ValidSettings
    /\ pc = "sweep" => sessions[open].mode = "sweep" /\ sessions[open].sig = SweepSig
    /\ pc \in {"walk", "walk end"} =>
         sessions[open].mode = "walk" /\ sessions[open].sig = WalkSig

(* The session that was looked up stays as it is until another is begun,   *)
(* and without flags to the contrary it is about to be begun again.        *)
LastHeld ==
    last # 0 =>
        /\ pc \in {"next", "begin", "walk begin"} /\ Resumable(last)
        /\ pc = "next" => at \in DOMAIN positions
        /\ Given(flags) \cap (Identity \cup {"skipSweep"}) = {} =>
             \/ pc = "walk begin" /\ sessions[last].mode = "walk"
                  /\ sessions[last].sig = WalkSig
             \/ pc \in {"next", "begin"} /\ sessions[last].mode = "sweep"
                  /\ sessions[last].sig = SweepSig

(* Without flags, a process that begins anew has nothing left to resume.   *)
NothingLeft ==
    given \subseteq {"noWalk"} /\ pc \in {"next", "begin", "walk begin"} /\ SomeResumable =>
        last # 0

(* The positions before the i-th of the default list are exhausted.        *)
Before(template, i) ==
    \A j \in 1 .. i - 1 :
        \E id \in DOMAIN sessions :
            /\ sessions[id].sig.template = template
            /\ sessions[id].sig.position = DefaultList[j]
            /\ Exhausted(id)

(* With the default list only, those before the position of a session are, *)
(* and those the loop has gone past, unless it was cancelled.              *)
WholeSoFar ==
    given \cap {"template", "positions"} = {} =>
        /\ \A id \in DOMAIN sessions :
             sessions[id].mode = "sweep" =>
                /\ sessions[id].meta.positions = DefaultPositions
                /\ \A i \in DOMAIN DefaultList :
                     DefaultList[i] = sessions[id].sig.position =>
                        Before(sessions[id].sig.template, i)
        /\ InSweep => /\ cfg.positions = DefaultPositions
                      /\ ~cancelled => Before(cfg.template, at)

(* What every step keeps, by RunProofs.                                    *)
IndInv ==
    /\ TypeOK /\ UniqueResumable /\ RowsOK
    /\ Control /\ LastHeld
    /\ NothingForgotten /\ NothingLeft /\ WholeSoFar
=============================================================================
