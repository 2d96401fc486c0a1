---------------------------- MODULE MCPhoneSync -----------------------------
(* TLC instances of PhoneSync: push sequences are interchangeable. *)
EXTENDS PhoneSync, TLC

CONSTANTS p1, p2, p3

TwoPushes == {p1, p2}
OnePush == {p1}
ThreePushes == {p1, p2, p3}
AnyOrder == Permutations(TwoPushes)
AnyOrderOfThree == Permutations(ThreePushes)

\* Saves and other devices alone: no wake, no failure, no pull by hand.
SavesNext == (\E s \in Pushes : Edit(s) \/ PushStep(s)) \/ Network \/ OtherDevicePushes
SavesSpec == PhoneInit /\ [][SavesNext]_phoneVars
=============================================================================
