---------------------------- MODULE MCKcndbctlFile ----------------------------
(***************************************************************************)
(* Small instances of KcndbctlFile for TLC.                                *)
(***************************************************************************)
EXTENDS KcndbctlFile

CONSTANTS sp, x, plus, minus, odd

(* Records, the last byte of which is the end of the line: one that fits   *)
(* in a message, one that does not, some without a locator and with        *)
(* numbers that are large, small or negative, and some that are none.      *)
MCLines ==
    { <<1, sp, 2, sp, x, sp>>,
      <<1, sp, 2, 1, sp, x, x, sp>>,
      <<2, sp, 9, 9, sp, sp>>,
      <<minus, 9, sp, plus, 1, sp, sp>>,
      <<minus, 0, sp, minus, 9, 9, sp, sp>>,
      <<1, sp, minus, sp, x, sp>>,
      <<1, sp, x, sp, x, sp>>,
      <<1, sp, 2, sp, odd, sp>>,
      <<1, sp, 2, sp, x, x, x, sp>> }

MCGood ==
    { <<1, sp, 2, sp, x, sp>>,
      <<1, sp, 2, 1, sp, x, x, sp>>,
      <<2, sp, 2, sp, sp>> }

Lines(set, n) == {FlattenSeq(s) : s \in UNION {[1..k -> set] : k \in 1..n}}

(* Every short text, ...                                                   *)
MCTexts == UNION {[1..n -> {1, x, sp}] : n \in 0..5}

(* ... and files of some lines, the last of which may lack its end.        *)
MCFiles ==
    MCTexts \cup Lines(MCLines, 2) \cup Lines(MCGood, 3)
            \cup {Front(f) : f \in Lines(MCLines, 2)}

(* A byte, or a record.                                                    *)
MCGrown == { <<1>>, <<1, sp, 2, sp, x, sp>> }
=============================================================================
