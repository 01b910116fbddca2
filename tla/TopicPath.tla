------------------------------ MODULE TopicPath ------------------------------
(***************************************************************************)
(* Topic names and filters of hmq as its topic tree parses them            *)
(* (broker/lib/topics).  A topic is the sequence of tokens between its '/' *)
(* separators: "a//b" is <<a, "", b>>, "a/" is <<a, "">>, and the empty    *)
(* topic is <<"">>.  nextTopicLevel peels off one token per call; the      *)
(* operators here say what the whole walk over the topic sees.             *)
(***************************************************************************)
EXTENDS Naturals, Sequences, SequencesExt

CONSTANTS
    Word,       \* ordinary tokens: no wildcard character in them
    Malformed,  \* tokens with a wildcard beside other characters: "a#", "++"
    RawTopic    \* the topics the environment names, as token sequences

EmptyToken == ""
SWC == "+"
MWC == "#"

Token == Word \cup Malformed \cup {EmptyToken, SWC, MWC}

ASSUME TokenAssumption ==
    /\ Word \cap (Malformed \cup {EmptyToken, SWC, MWC}) = {}
    /\ Malformed \cap {EmptyToken, SWC, MWC} = {}

ASSUME RawTopicAssumption ==
    RawTopic \subseteq Seq(Token) \ {<<>>}

(* The levels a node of the tree can be keyed by, and the nodes' positions.*)
Level == Word \cup {SWC, MWC}
Path == Seq(Level)
Root == <<>>

(***************************************************************************)
(* The walk stops when no characters are left, so an empty token at the    *)
(* end of the topic is never a level.                                      *)
(***************************************************************************)
Depth(raw) == IF raw[Len(raw)] = EmptyToken THEN Len(raw) - 1 ELSE Len(raw)

(* An empty token elsewhere is taken for the single-level wildcard.        *)
LevelAt(raw, i) == IF raw[i] = EmptyToken THEN SWC ELSE raw[i]

(* The token is well formed, and '#' has no '/' behind it.                 *)
LevelOk(raw, i) == /\ raw[i] \notin Malformed
                   /\ raw[i] = MWC => i = Len(raw)

(* The position the first k calls of nextTopicLevel lead to.               *)
Upto(raw, k) == [i \in 1..k |-> LevelAt(raw, i)]

ValidTopic(raw) == \A i \in 1..Depth(raw) : LevelOk(raw, i)
PathOf(raw) == Upto(raw, Depth(raw))

(* The positions the walk visits before it ends or meets a token that is   *)
(* an error: all the prefixes of PathOf(raw) when the topic is valid.      *)
Visited(raw) == {Upto(raw, k) : k \in {n \in 0..Depth(raw) :
                                         \A i \in 1..n : LevelOk(raw, i)}}

(* The nodes an insertion that ends in an error may have created.          *)
BrokenOff == UNION {Visited(raw) : raw \in {r \in RawTopic : ~ValidTopic(r)}}

(***************************************************************************)
(* What it means for a filter to match a topic, both given as paths.       *)
(***************************************************************************)
LevelsMatch(f, p, n) == \A i \in 1..n : f[i] = SWC \/ f[i] = p[i]

Matches(f, p) ==
    \/ Len(f) = Len(p) /\ LevelsMatch(f, p, Len(f))
    \/ /\ f # Root /\ Last(f) = MWC
       /\ Len(p) >= Len(f) - 1
       /\ LevelsMatch(f, p, Len(f) - 1)
=============================================================================
