-------------------------- MODULE MCAccessControl --------------------------
\* The base roles and one more, '*' and one more permission, the seeded
\* administrator and another account, and two simultaneous calls.
EXTENDS AccessControl, TLC

CONSTANTS u1, u2, admin, user, editor, star, p1, c1, c2

MCUsers == {u1, u2}
MCRoles == {admin, user, editor}
MCPermissions == {star, p1}
MCCalls == {c1, c2}
MCRoleLists == {{}, {admin}, {editor}}
MCPermissionLists == {{}, {p1}}
CallSymmetry == Permutations(MCCalls)
=============================================================================
