----------------------------- MODULE Destination -----------------------------
(***************************************************************************)
(* The Destination type (destination/types.go) and how it is made of a     *)
(* configuration map (extractDestination in destination/client.go).  A     *)
(* configuration maps keys to texts; a key that is absent reads as "".     *)
(***************************************************************************)
EXTENDS Sequences, Functions

CONSTANT PortTexts   \* texts that strconv.ParseUint(_, 10, 16) accepts

StructFields == {"Name", "Type", "ProxyType", "Authentication", "URL", "host", "port",
                 "user", "password", "path", "CloudConnectorLocationId"}

\* Mutant: a field of the struct is missing from the table.
knownFieldsNoUser == StructFields \ {"user"}

\* The table of keys that do not go to Properties, kept apart from the struct.
knownFields == {"Name", "Type", "ProxyType", "Authentication", "URL", "host", "port",
                "user", "password", "path", "CloudConnectorLocationId"}

Value(m, k) == IF k \in DOMAIN m THEN m[k] ELSE ""

extractDestination(cfg, tokens) ==
  [field      |-> [k \in StructFields |-> Value(cfg, k)],
   Properties |-> Restrict(cfg, DOMAIN cfg \ knownFields),
   AuthTokens |-> tokens]

PortNum(d) == [ok |-> d.field["port"] \in PortTexts, port |-> d.field["port"]]

Resolved(d, field, property) ==
  IF d.field[field] # "" THEN d.field[field] ELSE Value(d.Properties, property)

ResolvedUser(d)     == Resolved(d, "user", "User")
ResolvedPassword(d) == Resolved(d, "password", "Password")
=============================================================================
