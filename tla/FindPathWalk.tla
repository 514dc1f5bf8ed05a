---------------------------- MODULE FindPathWalk -----------------------------
(***************************************************************************)
(* `ArchivalState::find_path' as the code walks it, header by header, to   *)
(* be compared with the closed form `find_path' of module BlockTree.       *)
(***************************************************************************)
EXTENDS BlockTree, SequencesExt

Down(walk) == Append(walk, Prev(Last(walk)))

(* Walk down on the higher side until both sides are at the same height.   *)
RECURSIVE LevelOut(_, _)
LevelOut(leaving, arriving) ==
    LET hl == Height(Last(leaving))
        ha == Height(Last(arriving))
    IN  IF hl = ha THEN [leaving |-> leaving, arriving |-> arriving]
        ELSE IF hl < ha THEN LevelOut(leaving, Down(arriving))
        ELSE LevelOut(Down(leaving), arriving)

(* Walk down on both sides until the deepest blocks match.                 *)
RECURSIVE Meet(_, _)
Meet(leaving, arriving) ==
    IF Last(leaving) = Last(arriving)
    THEN [leaving |-> leaving, arriving |-> arriving]
    ELSE Meet(Down(leaving), Down(arriving))

WalkPath(start, stop) ==
    LET level == LevelOut(<<start>>, <<stop>>)
        met   == Meet(level.leaving, level.arriving)
    IN  [ backwards |-> Front(met.leaving),
          luca      |-> Last(met.leaving),
          forwards  |-> Reverse(Front(met.arriving)) ]
==============================================================================
