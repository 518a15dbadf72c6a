----------------------------- MODULE MCCipherDev -----------------------------
(* Keys of distinct characters whose length divides the size of a bucket.  *)
EXTENDS CipherDev, TLC

EvenKey == <<"C", "E">>
OtherKey == <<"M", "Y">>

AlikeReaders == Permutations(Readers)

NoKeys == {}
NewKey == {OtherKey}
AlsoEmptyKey == {OtherKey, <<>>}
=============================================================================
