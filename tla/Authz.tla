------------------------------- MODULE Authz --------------------------------
(***************************************************************************)
(* Roles and grant levels as sets of verbs, from crates/y2qd/src/authz.rs. *)
(***************************************************************************)

CONSTANTS
    Users, Slots,    \* accounts, and the credential slots of each
    None

Verbs == {"read", "write", "admin"}
Roles == {"admin", "user", "readonly", "writeonly", "auditor", "disabled"}

\* The verb ceiling of a global role.
RoleCaps(r) ==
    CASE r \in {"admin", "user"} -> Verbs
      [] r \in {"readonly", "auditor"} -> {"read"}
      [] r = "writeonly" -> {"write"}
      [] OTHER -> {}

RoleIsGlobal(r) == r \in {"admin", "auditor"}

\* A persona of role r may exist under an account, or a session, of role top.
RolePermits(r, top) ==
    /\ RoleCaps(r) \subseteq RoleCaps(top)
    /\ RoleIsGlobal(r) => RoleIsGlobal(top)

\* The verbs an ACL entry confers.
GrantCaps(level) ==
    CASE level = "read" -> {"read"}
      [] level = "write" -> {"read", "write"}
      [] level = "writeonly" -> {"write"}
      [] level = "admin" -> Verbs
      [] OTHER -> {}
=============================================================================
