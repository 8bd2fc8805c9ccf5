--------------------------- MODULE MCStaffSession ---------------------------
(* Small instance of StaffSession: one account, two sessions of it, two saves of its form. *)
EXTENDS StaffSession, TLC

CONSTANTS u1, l1, l2, r1, r2, o1, c1, EventAdmin

Account(active, staff, superuser, roles) ==
    [active |-> active, staff |-> staff, superuser |-> superuser, roles |-> roles]

\* Everything the role needs, and all but one of it, and a superuser.
MCForms ==
    {Account(TRUE, TRUE, FALSE, {EventAdmin}), Account(FALSE, TRUE, FALSE, {EventAdmin}),
     Account(TRUE, FALSE, FALSE, {EventAdmin}), Account(TRUE, TRUE, FALSE, {}),
     Account(TRUE, TRUE, TRUE, {})}

Symmetry == Permutations(Logins) \cup Permutations(Refreshes)
=============================================================================
