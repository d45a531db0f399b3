------------------------------ MODULE AuditLog ------------------------------
(***************************************************************************)
(* What the audit history promises: a log that only ever grows at its end, *)
(* each event entering it at most once (docs/CRM-AUDIT-MODEL.md, "immutable *)
(* append-only form").                                                     *)
(***************************************************************************)
EXTENDS Sequences

CONSTANTS EventIds, Inherited

VARIABLE log

LogInit == log = Inherited

AppendEvent(e) ==
    /\ \A i \in DOMAIN log : log[i] # e
    /\ log' = Append(log, e)

LogNext == \E e \in EventIds : AppendEvent(e)

Log == LogInit /\ [][LogNext]_log
=============================================================================
