---------------------------- MODULE MCSubmission ----------------------------
EXTENDS Submission, TLC
CONSTANTS b1, b2

\* Three files; the second shares its first piece with the first, the last is empty.
Album == [length |-> <<3, 20, 0>>, piece |-> <<4, 19>>,
          touches |-> (0 :> {1}) @@ (1 :> {1, 2}) @@ (2 :> {}),
          meta |-> 1, parses |-> TRUE, safe |-> TRUE]

\* Fits the budget alone, and overflows an int64 with its ZIP.
Huge == [length |-> <<45, 5>>, piece |-> <<50>>, touches |-> (0 :> {1}) @@ (1 :> {1}),
         meta |-> 1, parses |-> TRUE, safe |-> TRUE]

\* Names a file that run refuses.
Unsafe == [length |-> <<1>>, piece |-> <<1>>, touches |-> (0 :> {1}),
           meta |-> 1, parses |-> TRUE, safe |-> FALSE]

\* A magnet's: one negative length, a sum that wraps to 6, and a .torrent larger than
\* the fixed allowance.
Wild == [length |-> <<58, 60, -3, 9, 4>>, piece |-> <<6>>, touches |-> [i \in 0..4 |-> {1}],
         meta |-> 5, parses |-> FALSE, safe |-> TRUE]

SomeTorrents == {Album, Huge, Unsafe, Wild}
Listed       == {Album, Wild}

Of(t, u, z, f) == [torrent |-> t, upload |-> u, zipped |-> z, selection |-> f]
SomeSubmissions ==
    {Of(Album, TRUE, TRUE, {0, 2}), Of(Album, FALSE, TRUE, {1, 3}),
     Of(Huge, TRUE, TRUE, All), Of(Huge, FALSE, FALSE, All), Of(Unsafe, TRUE, FALSE, All),
     Of(Wild, FALSE, TRUE, {4}), Of(Wild, FALSE, FALSE, {2, 4}), Of(Wild, FALSE, FALSE, {3})}

Symmetry == Permutations(Browsers)
=============================================================================
