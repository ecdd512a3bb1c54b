------------------------------ MODULE MCSignIn ------------------------------
(* SignIn and LoginGuard beside each other for TLC: a behaviour is one of the *)
(* one or of the other, which share nothing, with the other at rest.          *)
EXTENDS SignIn, LoginGuard, TLC

VARIABLE guarded

\* Unlike the tabs, the posts of the limiter appear in no fairness
\* condition and in no temporal property.
Symmetry == Permutations(Posts)

MCInit == SignInInit /\ GuardInit /\ guarded \in BOOLEAN

MCNext ==
    \/ guarded /\ GuardNext /\ UNCHANGED <<signInVars, guarded>>
    \/ ~guarded /\ SignInNext /\ UNCHANGED <<guardVars, guarded>>

MCSpec ==
    MCInit /\ [][MCNext]_<<signInVars, guardVars, guarded>> /\ (~guarded => Fairness)
=============================================================================
