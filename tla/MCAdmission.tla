----------------------------- MODULE MCAdmission -----------------------------
(***************************************************************************)
(* The registry under two callers, and the admission of requests while one *)
(* caller works on one tenant.  A behaviour exercises one of the two.      *)
(***************************************************************************)
EXTENDS Admission, TLC

CONSTANTS
    Focus,   \* the tenant whose requests are admitted
    Admin    \* the caller that works on it meanwhile

VARIABLE part

\* Two spellings of one handle, and another handle.
MCFold(slug) == IF slug = "Acme" THEN "acme" ELSE slug

PartInit == AdmissionInit /\ part \in {"registry", "gateway"}

InFocus ==
    /\ \A t \in Tenants \ {Focus} : tenant'[t] = None
    /\ tenant'[Focus] # None => tenant'[Focus].slug = "acme"
    /\ \A c \in Callers \ {Admin} : tx'[c] = None
    /\ tx'[Admin] # None => tx'[Admin].after.slug = "acme"

PartNext ==
    /\ \/ part = "registry" /\ Next /\ UNCHANGED <<now, vk, request, witness>>
       \/ part = "gateway" /\ AdmissionNext /\ InFocus
    /\ UNCHANGED part

PartSpec == PartInit /\ [][PartNext]_<<admissionVars, part>>
=============================================================================
