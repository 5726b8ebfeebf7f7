-------------------------- MODULE MCPortalAccess ---------------------------
(***************************************************************************)
(* A small portal for TLC: an administrator, a member and a service        *)
(* account; any of their users may get a member record.                    *)
(***************************************************************************)
EXTENDS PortalAccess, TLC

CONSTANTS root, ada, bot, m1, m2, sch, app, ssub, asub, r1, r2

Token(user, roles) == [user |-> user, roles |-> roles]
MCTokens == {Token(root, {"admin"}), Token(ada, {"member"}), Token(bot, {"system"})}

Interchangeable == Permutations(Requests) \union Permutations(MemberIds)
=============================================================================
