---------------------------- MODULE MCCopyLedger ----------------------------
(* CopyLedger with the acks of MCLiveCopy.                                  *)
EXTENDS CopyLedger, MCLiveCopy, TLC

CONSTANTS c1, c2

\* Copy accounts differ in nothing but their names.
AnyAccount == Permutations({c1, c2})

\* One other ack beside a1: of the same order, or with the same trade id.
TwoAcks == ~({a2, a3} \subseteq published)

\* Bounds: one order is declined inside a 2xx reply, or one account is deleted.
OneDeclined == \A v, w \in declined : v = w
OneRemoved  == \A a, b \in Accounts \ copiers : a = b
NotBoth     == declined = {} \/ copiers = Accounts

Bounds == TwoAcks /\ OneDeclined /\ OneRemoved /\ NotBoth

\* LedgerSpec /\ []Bounds
BoundedSpec == LedgerInit /\ [][LedgerNext /\ Bounds']_ledgerVars
=============================================================================
