----------------------------- MODULE TLSProfile -----------------------------
(***************************************************************************)
(* The translation of OpenShift's TLS security profile to the operand's    *)
(* TLS options.  Versions are numbers (TLS 1.2 is 12); cipher and group    *)
(* names are abstract; Ciphers and Groups give the names library-go knows. *)
(***************************************************************************)
EXTENDS Naturals

CONSTANTS
    NoProfile,      \* the APIServer has no profile, or a Custom one no body
    Unsupported,    \* TLSOptionsFromProfile returns an error
    KnownCiphers,   \* OpenSSL names with an IANA name
    KnownGroups     \* groups with a curve ID

\* The predefined profiles by type.  They list the groups library-go knows, and
\* the ciphers of those that are not refused are known as well.
TLSProfiles ==
    [type \in {"Old", "Intermediate", "Modern"} |->
        [minTLSVersion |-> CASE type = "Old" -> 10 [] type = "Intermediate" -> 12
                             [] type = "Modern" -> 13,
         ciphers |-> KnownCiphers,
         groups |-> KnownGroups]]

\* nil means Intermediate; Custom needs its body; other types must be known.
getProfileSpec(profile) ==
    IF profile = NoProfile THEN TLSProfiles["Intermediate"]
    ELSE IF profile.type = "Custom"
         THEN IF profile.custom = NoProfile THEN Unsupported ELSE profile.custom
         ELSE IF profile.type \in DOMAIN TLSProfiles THEN TLSProfiles[profile.type]
              ELSE Unsupported

\* Names that cannot be mapped are dropped, and reported in an event.
convertGroupsToCurvePreferences(groups) == groups \intersect KnownGroups
findUnmappedCiphers(ciphers) == ciphers \ KnownCiphers

\* TLS 1.3 ciphers cannot be configured in Go, so none are passed then.
TLSOptionsFromProfile(profile) ==
    LET spec == getProfileSpec(profile)
    IN  IF spec = Unsupported \/ spec.minTLSVersion \in {10, 11} THEN Unsupported
        ELSE [minVersion |-> spec.minTLSVersion,
              cipherSuites |-> IF spec.minTLSVersion = 13 THEN {}
                               ELSE spec.ciphers \ findUnmappedCiphers(spec.ciphers),
              curvePreferences |-> convertGroupsToCurvePreferences(spec.groups)]
=============================================================================
