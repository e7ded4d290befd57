\* Units hermes and hermes-work with profiles work-a and a.
SPECIFICATION Spec
CONSTANTS
    s1 = s1
    s2 = s2
    Services <- MCServices
    Unit <- MCUnit
    Profile <- MCProfile
    CREDENTIAL_NAMES <- MCNames
INVARIANT OnlyOwnCredentials
CHECK_DEADLOCK FALSE
