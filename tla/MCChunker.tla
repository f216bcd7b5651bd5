------------------------------ MODULE MCChunker ------------------------------
(***************************************************************************)
(* Recordings for TLC, with one utterance anywhere, or two of which the    *)
(* second begins where the first ends or a second later.                   *)
(***************************************************************************)
EXTENDS Chunker

Lengths == {3, 12, 13, 14, 15, 16, 17, 18}

Utterances(n) == {u \in [from : 0..(n-1), to : 1..n] : u.from < u.to}

Speeches(n) ==
  {<<u>> : u \in Utterances(n)}
    \cup {<<u, v>> : u \in Utterances(n),
                     v \in {w \in Utterances(n) : w.to - w.from <= 3}}

InOrder(s) == Len(s) = 2 => s[2].from \in {s[1].to, s[1].to + 1}

ManyRecordings ==
  UNION {{[total |-> n, speech |-> s] : s \in {x \in Speeches(n) : InOrder(x)}} : n \in Lengths}

=============================================================================
