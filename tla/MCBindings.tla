----------------------------- MODULE MCBindings -----------------------------
(***************************************************************************)
(* An instance of Bindings for TLC: two instances, given by VCAP_SERVICES  *)
(* and by directories, of which the first changes between per-key files    *)
(* and a credentials blob and the second its type; one instance in         *)
(* VCAP_SERVICES with bad credentials; a dotted directory and a plain file. *)
(***************************************************************************)
EXTENDS Bindings, TLC

Text(t) == [text |-> t, fields |-> << >>, scalar |-> TRUE]
Object  == [text |-> "[]", fields |-> << >>, scalar |-> FALSE]
Blob(f) == [text |-> "{}", fields |-> f, scalar |-> TRUE]

MCRoot == <<[name |-> "..data", dir |-> TRUE, dotted |-> TRUE],
            [name |-> "a", dir |-> TRUE, dotted |-> FALSE],
            [name |-> "b", dir |-> TRUE, dotted |-> FALSE],
            [name |-> "readme", dir |-> FALSE, dotted |-> FALSE]>>

Xsuaa(id, secret, url) ==
  [type |-> "xsuaa", struct |-> [ClientID |-> id, ClientSecret |-> secret, URL |-> url,
                                 UAADomain |-> ""]]

MCMeant ==
  [a |-> <<Xsuaa("a1", "A1", "u"), Xsuaa("a2", "A2", "u")>>,
   b |-> <<Xsuaa("b1", "", ""),
           [type |-> "destination",
            struct |-> [ClientID |-> "b2", ClientSecret |-> "B2", URI |-> "d",
                        TokenServiceURL |-> "u"]]>>]

MCContent ==
  [a |-> <<"type" :> Text("xsuaa") @@ "clientid" :> Text("a1")
             @@ "clientsecret" :> Text("A1") @@ "url" :> Text("u"),
           "type" :> Text("xsuaa") @@ "clientid" :> Text("a2")
             @@ "credentials" :> Blob("clientid" :> Text("old") @@ "clientsecret" :> Text("A2")
                                      @@ "url" :> Text("u") @@ "uaadomain" :> Object)>>,
   b |-> <<"type" :> Text("xsuaa") @@ "clientid" :> Text("b1"),
           "type" :> Text("destination")
             @@ "credentials" :> Blob("clientid" :> Text("b2") @@ "clientsecret" :> Text("B2")
                                      @@ "uri" :> Text("d") @@ "url" :> Text("u"))>>]

MCVcap ==
  [xsuaa |->
     <<[name |-> "a", object |-> TRUE,
        fields |-> "clientid" :> Text("a1") @@ "clientsecret" :> Text("A1")
                     @@ "url" :> Text("u") @@ "uaadomain" :> Object],
       [name |-> "b", object |-> TRUE, fields |-> "clientid" :> Text("b1")]>>,
   connectivity |-> <<[name |-> "bad", object |-> FALSE, fields |-> << >>]>>]
=============================================================================
