----------------------------- MODULE DiskTenancy -----------------------------
(***************************************************************************)
(* What the paired resources of a session promise about its storage: one   *)
(* tenant at a time.  A tenant is a generation of the session's resources  *)
(* or the reaper.  Pods run and disks appear only for the tenant, and it   *)
(* leaves only when none of its Pods runs, so that no Pod of one           *)
(* generation ever runs beside, or after, another's.                       *)
(*                                                                         *)
(* PairLifetime implements this specification.                             *)
(***************************************************************************)
EXTENDS Integers, FiniteSets

CONSTANTS Tenants,  \* generations of the session's resources
          Reaper,   \* who destroys a disk that was kept too long
          Nobody    \* not a tenant

VARIABLES tenant,   \* who may touch the session's storage now
          spent,    \* tenants that left; none of them returns
          running,  \* tenants of which a Pod exists
          disks     \* workspace disks, named by the tenant that created them

tenancy == <<tenant, spent, running, disks>>

TypeOK ==
    /\ tenant \in Tenants \cup {Reaper, Nobody}
    /\ spent \subseteq Tenants
    /\ running \subseteq Tenants
    /\ disks \subseteq Tenants

Init == tenant = Nobody /\ spent = {} /\ running = {} /\ disks = {}

\* A generation that never was tenant takes the storage over.
Enter(t) ==
    /\ tenant = Nobody /\ t \in Tenants \ spent
    /\ tenant' = t
    /\ UNCHANGED <<spent, running, disks>>

Run(t) ==
    /\ tenant = t /\ t \in Tenants
    /\ running' = running \cup {t}
    /\ UNCHANGED <<tenant, spent, disks>>

Stop(t) ==
    /\ running' = running \ {t}
    /\ UNCHANGED <<tenant, spent, disks>>

Create(t) ==
    /\ tenant = t /\ t \in Tenants /\ disks = {}
    /\ disks' = {t}
    /\ UNCHANGED <<tenant, spent, running>>

\* A disk is destroyed by a tenant of which no Pod runs, or by the reaper.
Destroy(d) ==
    /\ tenant # Nobody /\ running = {} /\ d \in disks
    /\ disks' = disks \ {d}
    /\ UNCHANGED <<tenant, spent, running>>

\* The tenant leaves its disk behind, or none.
Leave ==
    /\ tenant \in Tenants /\ running = {}
    /\ tenant' = Nobody /\ spent' = spent \cup {tenant}
    /\ UNCHANGED <<running, disks>>

Condemn ==
    /\ tenant = Nobody
    /\ tenant' = Reaper
    /\ UNCHANGED <<spent, running, disks>>

Reaped ==
    /\ tenant = Reaper /\ disks = {}
    /\ tenant' = Nobody
    /\ UNCHANGED <<spent, running, disks>>

Next ==
    \/ \E t \in Tenants : Enter(t) \/ Run(t) \/ Stop(t) \/ Create(t) \/ Destroy(t)
    \/ Leave \/ Condemn \/ Reaped

Spec == Init /\ [][Next]_tenancy

-----------------------------------------------------------------------------
\* Only the tenant has Pods: no generation runs beside another or after it left.
OnlyTheTenantRuns == running \subseteq {tenant} \ spent
=============================================================================
