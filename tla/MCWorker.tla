------------------------------ MODULE MCWorker ------------------------------
EXTENDS Worker
CONSTANTS k1, k2

NothingFound == { << >> }

\* What a complete write leaves where one node is attached, and one that loses power.
Whole(s, k) == << Start(s), Data(k, Default), End(s, << Data(k, Default) >>) >>
Torn(s) == << Start(s) >>

\* A second record of number s, that has the value v.
Again(s, k, v) == << Start(s), Data(k, v), End(s, << Data(k, v) >>) >>

AnyFound == { << >>, Whole(1, k1), Whole(1, k1) \o Torn(2) }
    \cup { Whole(1, k1) \o Again(1, k1, v) : v \in Values }

TornFound == { Whole(1, k1) \o Whole(2, k2) \o Torn(3) }
=============================================================================
