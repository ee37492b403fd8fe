------------------------------ MODULE MCAccess ------------------------------
EXTENDS Access

CONSTANTS u1, c1, t1, t2

AllOfUser     == [t \in Tokens |-> u1]
UserAndClient == [t \in Tokens |-> IF t = t1 THEN u1 ELSE c1]

AnyRoles   == SUBSET Roles
AllRoles   == {Roles}
SomeGrants == {{}, {"admin"}}
NoGrants   == {}
AllScopes  == {Scope}
=============================================================================
