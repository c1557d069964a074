-------------------------- MODULE MCMediaAnalysis --------------------------
(***************************************************************************)
(* A Teams recording and two other videos, one of them silent, in tenants  *)
(* with one or several transcripts, once more than a page of them, and     *)
(* with and without captions.                                              *)
(***************************************************************************)
EXTENDS MediaAnalysis

CONSTANTS j1, j2, j3

\* The lines of a file, and of a cue with or without an identifier
Line(kind, says) == [is |-> kind, says |-> says]
Blank == Line("blank", "")
Cue(id, says) ==
    (IF id THEN <<Line("id", "#")>> ELSE <<>>) \o <<Line("times", "-->")>>
        \o [i \in DOMAIN says |-> Line("word", says[i])] \o <<Blank>>
File(cues) == <<Line("head", "WEBVTT"), Blank>> \o FlattenSeq(cues)

Talk  == File(<<Cue(TRUE, <<"a", "b">>), Cue(TRUE, <<"b", "c", "d">>)>>)
Other == File(<<Cue(TRUE, <<"d", "e">>), Cue(TRUE, <<>>)>>)
Bare  == File(<<Cue(FALSE, <<"a", "b">>), Cue(FALSE, <<"c">>), Cue(FALSE, <<"d">>)>>)
Short == File(<<Cue(TRUE, <<"a">>)>>)

At(t, lines) == [at |-> t, lines |-> lines]
MCListings == {<<>>, <<At(1, Bare), At(9, Short)>>,
               <<At(0, Other), At(4, Talk), At(7, Other), At(5, Bare)>>}
MCCaptions == {<<>>, Talk, Bare}

MCRecordedAt == [j \in Jobs |-> IF j = j1 THEN 5 ELSE 0]
MCSpeech == [j \in Jobs |-> IF j = j3 THEN <<"a">> ELSE <<"x", "y", "z">>]
=============================================================================
