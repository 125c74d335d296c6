------------------------------ MODULE ChordMC -------------------------------
(***************************************************************************)
(* A small chord mode for TLC: three keys for two entries, of which the    *)
(* chords of two share a tone, as C and E both reach G, and a handful of   *)
(* settings of the chord.* parameters.                                     *)
(***************************************************************************)
EXTENDS Chord

MCPitches == 1 .. 5

(* "triad" and "wide" differ in tones, "all", "mono" and "off" in one switch *)
(* each; "post" plays after the arpeggiator. A "strum" is heard through the  *)
(* arpeggiator. In "cross" a mono key's chord has the other key's own note   *)
(* in it, as an A minor has C's.                                             *)
MCEnabled(s)     == s # "off"
MCPre(s)         == s # "post"
MCMono(s)        == s \in {"mono", "cross"}
MCStrummed(s)    == s = "strum"
MCRestrikeAll(s) == s = "all"
MCArpOn(s)       == s = "strum"
MCKeyNote(k)     == CASE k = "C" -> 1 [] k = "E" -> 2 [] k = "B" -> 5
MCTones(s, k) ==
  CASE k = "C" -> IF s \in {"wide", "all"} THEN <<1, 4>> ELSE <<1, 3>>
    [] k = "E" -> IF s = "cross" THEN <<1, 2>> ELSE <<2, 3>>
    [] k = "B" -> <<4, 5>>

(* What is played with one setting and what is tuned while it is held: the  *)
(* settings of a group are written over one another in any order, and the   *)
(* route changes under held keys in a group of its own.                     *)
Among(S) == {x \in S \X S : x[1] # x[2]}
MCTunings == Among({"triad", "all", "off", "mono"}) \cup Among({"wide", "post"})
=============================================================================
