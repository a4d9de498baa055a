------------------------------ MODULE Bindings ------------------------------
(***************************************************************************)
(* A program that reads one of its service bindings at startup: the        *)
(* provider auto.NewProvider selects (binding/auto/auto.go), the lookup in *)
(* VCAP_SERVICES (binding/cf/cf.go) or in the mounted directories of       *)
(* KymaBinding, and the typed extractor that calls it (binding/binding.go). *)
(*                                                                         *)
(* VCAP_SERVICES is parsed once and does not change while a process runs;  *)
(* the mounted directories do.  JSON is external: credentials are an       *)
(* object with fields, or cannot be decoded.                               *)
(***************************************************************************)
EXTENDS KymaBinding

CONSTANTS Vcap,   \* Vcap[label]: the instances, in order: [name, object, fields]
          Meant   \* Meant[d][v]: the [type, struct] that version v of instance d is
                  \* to give its reader, for those whose credentials are sound

VARIABLES env,       \* the environment: [vcap, root], whether each is set
          provider,  \* "none", "cf", "kyma" or "error"
          typed      \* the struct the extractor returns

bindingsVars == <<vars, env, provider, typed>>

NoStruct == << >>

BindingsInit == /\ Init
                /\ env \in [vcap : {"unset", "set", "malformed"}, root : BOOLEAN]
                /\ provider = "none"
                /\ typed = NoStruct
-----------------------------------------------------------------------------
\* auto.NewProvider: VCAP_SERVICES comes first, then SERVICE_BINDING_ROOT, then
\* a /bindings directory, which is the root if there is no other.
Detected == CASE env.vcap = "malformed" -> "error"
              [] env.vcap = "set"       -> "cf"
              [] env.vcap = "unset" /\ (env.root \/ arg.root # "absent") -> "kyma"
              [] OTHER                  -> "error"

NewProvider == /\ provider = "none"
               /\ provider' = Detected
               /\ UNCHANGED <<vars, env, typed>>

\* The keys in which the extractors look for each field of their structs: the
\* first that is there and not empty.
KeysOf ==
  [connectivity |-> [ClientID |-> <<"clientid">>, ClientSecret |-> <<"clientsecret">>,
                     TokenServiceURL |-> <<"token_service_url">>,
                     OnpremiseProxyHost |-> <<"onpremise_proxy_host">>,
                     OnpremiseProxySocks5Port |-> <<"onpremise_socks5_proxy_port">>,
                     OnpremiseProxyHTTPPort |-> <<"onpremise_proxy_http_port">>],
   destination  |-> [ClientID |-> <<"clientid">>, ClientSecret |-> <<"clientsecret">>,
                     URI |-> <<"uri">>, TokenServiceURL |-> <<"token_service_url", "url">>],
   xsuaa        |-> [ClientID |-> <<"clientid">>, ClientSecret |-> <<"clientsecret">>,
                     URL |-> <<"url">>, UAADomain |-> <<"uaadomain">>]]

Value(m, keys) ==
  LET there(k) == k \in DOMAIN m /\ m[k].text # ""
      found    == SelectSeq(keys, there)
  IN IF found = << >> THEN "" ELSE m[Head(found)].text

Struct(m, type) == [f \in DOMAIN KeysOf[type] |-> Value(m, KeysOf[type][f])]

\* The instances that VCAP_SERVICES has under a label.
Instances(label) == IF label \in DOMAIN Vcap THEN Vcap[label] ELSE << >>

\* cf.findCredentials: the instances under the label with the name asked for,
\* of which it takes the first.
findCredentials == {k \in DOMAIN Instances(arg.type) :
                      arg.name = "" \/ Instances(arg.type)[k].name = arg.name}

Instance == Instances(arg.type)[Min(findCredentials)]

\* Fields that are no string, number or Boolean are left out.
Scalars(fields) == [k \in {f \in DOMAIN fields : fields[f].scalar} |-> fields[k]]

\* The extractor's call of cf.Provider.Binding.
CFBinding ==
  /\ provider = "cf" /\ pc = "start"
  /\ \/ /\ findCredentials = {}
        /\ Return("not_found")
        /\ UNCHANGED typed
     \/ /\ findCredentials # {} /\ ~Instance.object
        /\ Return("error")
        /\ UNCHANGED typed
     \/ /\ findCredentials # {} /\ Instance.object
        /\ Return("found")
        /\ typed' = Struct(Scalars(Instance.fields), arg.type)
  /\ UNCHANGED <<arg, todo, names, open, out, lastErr, volume, quiet, env, provider>>

\* A step of its call of kyma.Provider.Binding, or of the kubelet.
KymaStep == provider = "kyma" /\ Next /\ UNCHANGED <<env, provider, typed>>

\* The map the Kyma provider has returned becomes the struct.
Extract == /\ provider = "kyma" /\ result = "found" /\ typed = NoStruct
           /\ typed' = Struct(out, arg.type)
           /\ UNCHANGED <<vars, env, provider>>

Ended == (provider = "error" \/ pc = "done") /\ UNCHANGED bindingsVars

BindingsNext == NewProvider \/ CFBinding \/ KymaStep \/ Extract \/ Ended

BindingsSpec == BindingsInit /\ [][BindingsNext]_bindingsVars
-----------------------------------------------------------------------------
\* Types of all variables; only a binding that was found becomes a struct.
BindingsTypeOK ==
  /\ TypeOK
  /\ provider \in {"none", "cf", "kyma", "error"}
  /\ typed # NoStruct => result = "found" /\ DOMAIN typed = DOMAIN KeysOf[arg.type]

\* Meant is what the files of the directories say.
ASSUME MeantAssumption ==
  /\ Dirs \subseteq DOMAIN Meant
  /\ \A d \in Dirs, type \in Types : \A v \in Versions(d) :
       LET m == Says(d, v)
       IN /\ HasType(m, type) <=> Meant[d][v].type = type
          /\ HasType(m, type) => Meant[d][v].struct = Struct(m, type)

\* VCAP_SERVICES has the same instances: under each label those whose first
\* version has that type, in their order, and they say what is meant; credentials
\* that cannot be decoded stand alone, and mean nothing.
ASSUME VcapAssumption ==
  \A type \in Types :
    LET list   == Instances(type)
        places == {i \in DOMAIN Root : /\ Root[i].dir /\ ~Root[i].dotted
                                       /\ Root[i].name \in DOMAIN Meant
                                       /\ Meant[Root[i].name][1].type = type}
        at(k)  == {i \in places : Root[i].name = list[k].name}
    IN /\ DOMAIN list \subseteq Nat
       /\ \A k \in DOMAIN list :
            IF list[k].object
              THEN at(k) # {} /\ Meant[list[k].name][1].struct = Struct(Scalars(list[k].fields), type)
              ELSE places = {}
       /\ \A i \in places : \E k \in DOMAIN list : i \in at(k)
       /\ \A j, k \in DOMAIN list : j < k => \A m \in at(j), n \in at(k) : m < n

\* What an instance is to give its reader: VCAP_SERVICES has its first version.
MeantNow(e) == Meant[e.name][IF provider = "cf" THEN 1 ELSE current[e.name]]

\* The instances asked for, by their places in the order of their names.
Matching ==
  {i \in DOMAIN Root : /\ Wanted(Root[i]) /\ Root[i].name \in DOMAIN Meant
                       /\ provider = "kyma" => Root[i].name \in present
                       /\ MeantNow(Root[i]).type = arg.type}

\* The interface's promise: a program gets the same struct for a binding from
\* VCAP_SERVICES, from one file per key and from a credentials blob, that of
\* the first instance that matches, and fails if none does.  On Kyma this is
\* for calls during which no volume changes: no file is lost, the blob fills
\* gaps only, and no other binding is taken.
QuietReadExact ==
  /\ typed # NoStruct /\ quiet =>
       Matching # {} /\ typed = MeantNow(Root[Min(Matching)]).struct
  /\ pc = "done" /\ quiet /\ result # "found" /\ arg.root = "mounted" => Matching = {}
=============================================================================
