------------------------------- MODULE MCRun -------------------------------
(* Instances of RunCommand for TLC.                                        *)
EXTENDS RunProperties, TLC

CONSTANTS t1, t2, t3, typo

MCTemplates == {t1, t2, t3}
MCBadTemplates == {typo}

(* 0-1, 5,1 and 0-1,1, which names a position twice.                       *)
TwoPositions == << <<0, 1>> >>
OtherPositions == << <<5, 5>>, <<1, 1>> >>
Repeated == << <<0, 1>>, <<1, 1>> >>

MCSignatures ==
    [template: MCTemplates \cup MCBadTemplates, position: WordPositions,
     settings: Settings]
        \cup [template: {WalkTemplate}, position: {-1}, settings: Settings]
MCMetas == [template: MCTemplates \cup MCBadTemplates \cup {None},
            positions: {NoPositions, TwoPositions, OtherPositions, Repeated}]
MCCursors == Odometers \cup {NoCursor}

Flag(name, value) == [NoFlags EXCEPT ![name] = value]
TemplateSymmetry == Permutations(MCTemplates)
NoFlagsOnly == {NoFlags}

(* No flags, and one flag at a time.                                       *)
MCFlagSets ==
    {NoFlags, Flag("skipSweep", TRUE), Flag("noWalk", TRUE), Flag("reset", TRUE),
     Flag("positions", OtherPositions), Flag("positions", Repeated)}
        \cup {Flag("settings", s) : s \in Settings \ {DefaultSettings}}
        \cup {Flag("template", t) : t \in MCTemplates \cup MCBadTemplates}
=============================================================================
