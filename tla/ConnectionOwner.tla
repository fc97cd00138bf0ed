--------------------------- MODULE ConnectionOwner ---------------------------
(***************************************************************************)
(* ConnectionOwnerService: the one application-wide register that says     *)
(* which kind of session may use the connection entry.  It is shared by    *)
(* the data connection (serial, TCP, UDP), the debug probe and the Flash   *)
(* programmer, each of which calls tryAcquire before it touches hardware   *)
(* and release afterwards.  The register itself is a variable of the       *)
(* modules that share it; this module has its values and its two           *)
(* operations.                                                             *)
(***************************************************************************)

\* The owners a service can be, without the value "none".
Owner == {"data", "probe", "programming"}

OwnerState == Owner \cup {"none"}

\* tryAcquire: succeeds when the entry is free or already held by the
\* caller; on success the register becomes o.
CanAcquire(owner, o) == owner \in {"none", o}

\* Faulty (documents the mistake Released avoids): anyone's release frees the
\* entry.
ReleasedByAnyone(owner, o) == "none"

\* release: a no-op for everyone but the current holder.
Released(owner, o) == IF owner = o THEN "none" ELSE owner
=============================================================================
