---------------------------- MODULE ConfirmedLinks ----------------------------
(***************************************************************************)
(* What ProtectedBundleRegistry promises the contracts that call           *)
(* isConfirmedLink: a link between a bundle and a domain record is made    *)
(* once, for good, at most one per bundle and per domain record, and it    *)
(* may later become, and then stays, decision-critical.                    *)
(***************************************************************************)
CONSTANT PossibleLinks       \* records with at least bundleKey and domainKey

VARIABLES
    links,                   \* the confirmed links
    critical                 \* those that are decision-critical

Confirm(link) ==
    /\ \A l \in links : l.bundleKey # link.bundleKey /\ l.domainKey # link.domainKey
    /\ links' = links \cup {link}
    /\ UNCHANGED critical

Promote(link) ==
    /\ link \in links \ critical
    /\ critical' = critical \cup {link}
    /\ UNCHANGED links

LinksInit == links = {} /\ critical = {}

LinksNext == \E link \in PossibleLinks : Confirm(link) \/ Promote(link)

LinksSpec == LinksInit /\ [][LinksNext]_<<links, critical>>
===============================================================================
