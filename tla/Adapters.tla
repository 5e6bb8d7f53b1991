------------------------------ MODULE Adapters ------------------------------
(***************************************************************************)
(* The two halves of the adapter contract: what a protocol adapter renders *)
(* for a client and for a server (adapters/protocols.rs), and what a core  *)
(* adapter composes from the server fragments of a plan and reads back     *)
(* from a configuration (adapters/cores.rs).                               *)
(*                                                                         *)
(* A capability, which is also the ID of its protocol adapter, is a pair   *)
(* of a base and a variant: `trojan-restls` is <<"trojan", "restls">>.     *)
(* Text fields (host names, paths) are left out: both halves copy them     *)
(* from one row.  A secret field holds the name of a secret.  A document   *)
(* for a client is a set of proxies and a configuration a set of           *)
(* listeners, records with                                                 *)
(*   kind   the type the document names, port and name of the profile,     *)
(*   layer  what wraps the stream,                                         *)
(*   shape  its transport and flow: plain, xhttp, or TCP with vision,      *)
(*   keys   the values of the secret fields it carries.                    *)
(***************************************************************************)
EXTENDS Integers, Functions, Absent

Cores == {"xray", "sing-box", "mihomo", "hysteria", "tuic"}

-----------------------------------------------------------------------------
(* The protocol adapters *)

Plain == "plain"
Camouflage == {"shadowtls-v3", "restls", "jls"}

Vless  == {"vless"} \X ({"reality-xhttp", "reality-tcp"} \cup Camouflage)
Trojan == {"trojan"} \X ({"tls", "reality"} \cup Camouflage)
AnyTls == {"anytls"} \X ({"tls"} \cup Camouflage)
Snell  == {"snell-v5"} \X ({Plain} \cup Camouflage)
Unwrapped ==
    {<<"shadowsocks2022", "shadow-tls">>, <<"hysteria2", Plain>>, <<"any", "tls">>,
     <<"tuic", Plain>>, <<"mieru", Plain>>, <<"trusttunnel", "h2">>,
     <<"shadowquic", Plain>>, <<"sudoku", "httpmask">>}
Capabilities == Vless \cup Trojan \cup AnyTls \cup Snell \cup Unwrapped

(* user_participation and listener_network of the manifests.                *)
PerUser(c) == c[1] \in {"vless", "trojan", "tuic", "mieru", "trusttunnel", "shadowquic"}
Udp(c)     == c[1] \in {"hysteria2", "tuic", "shadowquic"}

(* profile_requires_tls: the capabilities served with the host's own        *)
(* certificate.                                                             *)
NeedsTls(c) == c \in {<<"hysteria2", Plain>>, <<"tuic", Plain>>, <<"any", "tls">>,
                      <<"anytls", "tls">>, <<"trojan", "tls">>, <<"trusttunnel", "h2">>}

(* The security wrapper an Implementation names.                            *)
Layer(c) ==
    CASE c[2] \in {"reality-xhttp", "reality-tcp", "reality"} -> "reality"
      [] c[2] \in Camouflage -> c[2]
      [] c[2] = "shadow-tls" -> "shadowtls-v3"
      [] c[1] = "shadowquic" -> "jls"
      [] NeedsTls(c) -> "tls"
      [] OTHER -> "none"

(* The fields the base protocol and the wrapper ask for.                    *)
BaseFields(c) ==
    CASE c[1] = "snell-v5" -> {"psk"}
      [] c[1] = "sudoku" -> {"key"}
      [] c[1] \in {"shadowsocks2022", "any", "anytls", "tuic", "mieru", "hysteria2"} -> {"password"}
      [] OTHER -> {}

WrapperFields(c) ==
    CASE Layer(c) = "reality" -> {"public_key", "short_id", "private_key"}
      [] Layer(c) = "shadowtls-v3" -> {"shadow_tls_password"}
      [] Layer(c) = "restls" -> {"restls_password"}
      [] Layer(c) = "jls" /\ c[1] # "shadowquic" -> {"jls_username", "jls_password"}
      [] OTHER -> {}

Fields == {"psk", "key", "password", "obfs_password", "public_key", "short_id", "private_key",
           "shadow_tls_password", "restls_password", "jls_username", "jls_password"}
RequiredFields(c) == BaseFields(c) \cup WrapperFields(c)
OptionalFields(c) == IF c[1] = "hysteria2" THEN {"obfs_password"} ELSE {}

(* validate_config: every required field refers to a secret, an optional    *)
(* one may.                                                                 *)
Configured(c, refs) ==
    /\ RequiredFields(c) \subseteq DOMAIN refs
    /\ DOMAIN refs \subseteq RequiredFields(c) \cup OptionalFields(c)

(* client_, server_ and server_only_secret_references.                      *)
ClientReferences(refs)     == {refs[f] : f \in (DOMAIN refs) \ {"private_key"}}
ServerReferences(refs)     == {refs[f] : f \in (DOMAIN refs) \ {"public_key"}}
ServerOnlyReferences(refs) == {refs[f] : f \in (DOMAIN refs) \cap {"private_key"}}
SharedReferences(refs)     == {refs[f] : f \in (DOMAIN refs) \ {"public_key", "private_key"}}

(* The values of some fields of a row, in a store of secrets.               *)
Values(fields, refs, store) == [f \in fields \cap DOMAIN refs |-> store[refs[f]]]

(* transport and flow of composition().                                     *)
Shape(c) ==
    CASE c[2] = "reality-xhttp" -> "xhttp"
      [] c[2] = "reality-tcp" -> "vision"
      [] OTHER -> "plain"

ProxyKind(c) ==
    CASE c[1] = "shadowsocks2022" -> "ss"
      [] c[1] = "any" -> "anytls"
      [] c[1] = "snell-v5" -> "snell"
      [] OTHER -> c[1]

(* apply_client_wrapper and apply_snell_client_wrapper: what each wrapper   *)
(* adds to a proxy.                                                         *)
ClientWrapperFields(c) == WrapperFields(c) \ {"private_key"}

(* render_client fails exactly when a secret it needs is missing.           *)
Renderable(row, store) == \A n \in ClientReferences(row.refs) : store[n] # None

Proxy(p, row, user, store) ==
    [name |-> p, kind |-> ProxyKind(row.cap), port |-> row.port, layer |-> Layer(row.cap),
     shape |-> Shape(row.cap), user |-> user,
     keys |-> Values(BaseFields(row.cap) \cup OptionalFields(row.cap) \cup
                     ClientWrapperFields(row.cap), row.refs, store)]

(* render_server: the fragment of a profile, with the users only where the  *)
(* protocol tells them apart.                                               *)
Fragment(p, row, users, store) ==
    [name |-> p, cap |-> row.cap, port |-> row.port, udp |-> Udp(row.cap),
     users |-> IF PerUser(row.cap) THEN users ELSE {},
     keys |-> Values((DOMAIN row.refs) \ {"public_key"}, row.refs, store)]

-----------------------------------------------------------------------------
(* The core adapters *)

Offers(core) ==
    CASE core = "xray" -> {<<"vless", "reality-tcp">>, <<"vless", "reality-xhttp">>}
      [] core = "sing-box" ->
            {<<"vless", "reality-tcp">>, <<"shadowsocks2022", "shadow-tls">>,
             <<"hysteria2", Plain>>, <<"any", "tls">>, <<"tuic", Plain>>}
      [] core = "hysteria" -> {<<"hysteria2", Plain>>}
      [] core = "tuic" -> {<<"tuic", Plain>>}
      [] core = "mihomo" ->
            Vless \cup Trojan \cup AnyTls \cup Snell \cup
            {<<"mieru", Plain>>, <<"trusttunnel", "h2">>, <<"shadowquic", Plain>>,
             <<"sudoku", "httpmask">>}

Priority(core) ==
    CASE core = "xray" -> 100 [] core = "sing-box" -> 50 [] OTHER -> 200

Listener(f, kind, layer, shape, fields) ==
    [name |-> f.name, kind |-> kind, port |-> f.port, layer |-> layer, shape |-> shape,
     keys |-> Restrict(f.keys, fields \cap DOMAIN f.keys), users |-> f.users]

XrayListener(f) ==
    Listener(f, "vless", "reality",
             IF f.cap[2] = "reality-xhttp" THEN "xhttp"
             ELSE IF f.cap[2] = "reality-tcp" THEN "vision" ELSE "plain",
             {"private_key", "short_id"})

SingBoxListener(f) ==
    CASE f.cap = <<"vless", "reality-tcp">> ->
            Listener(f, "vless", "reality", "plain", {"private_key", "short_id"})
      [] f.cap = <<"shadowsocks2022", "shadow-tls">> ->
            Listener(f, "shadowtls", "shadowtls-v3", "plain", {"password", "shadow_tls_password"})
      [] f.cap = <<"hysteria2", Plain>> ->
            Listener(f, "hysteria2", "tls", "plain", {"password", "obfs_password"})
      [] f.cap = <<"any", "tls">> -> Listener(f, "anytls", "tls", "plain", {"password"})
      [] f.cap = <<"tuic", Plain>> -> Listener(f, "tuic", "tls", "plain", {"password"})

(* The native servers name no type; theirs is the protocol's.               *)
HysteriaListener(f) == Listener(f, "hysteria2", "tls", "plain", {"password", "obfs_password"})
TuicListener(f)     == Listener(f, "tuic", "tls", "plain", {"password"})

(* apply_mihomo_server_wrapper: what each wrapper adds to a listener.       *)
ServerWrapperFields(layer) ==
    CASE layer = "reality" -> {"private_key", "short_id"}
      [] layer = "shadowtls-v3" -> {"shadow_tls_password"}
      [] layer = "restls" -> {"restls_password"}
      [] layer = "jls" -> {"jls_username", "jls_password"}
      [] OTHER -> {}

(* Mutant: every camouflaged capability is composed as ShadowTLS.           *)
WrapperAsShadowTls(c) ==
    IF c[2] \in Camouflage THEN "shadowtls-v3" ELSE Layer(c)

(* wrapper_for_capability goes by the last part of the ID; capabilities it  *)
(* is not asked about are wrapped by their own protocol or not at all.      *)
WrapperForCapability(c) ==
    CASE c[1] = "trusttunnel" -> "tls"
      [] c[1] = "shadowquic" -> "jls"
      [] c[2] \in {"reality-tcp", "reality-xhttp", "reality"} -> "reality"
      [] c[2] \in Camouflage \cup {"tls"} -> c[2]
      [] OTHER -> "none"

MihomoKind(c) == IF c[1] = "snell-v5" THEN "snell" ELSE c[1]
MihomoShape(c) ==
    CASE c = <<"vless", "reality-tcp">> -> "vision"
      [] c = <<"vless", "reality-xhttp">> -> "xhttp"
      [] OTHER -> "plain"

MihomoListener(f) ==
    Listener(f, MihomoKind(f.cap), WrapperForCapability(f.cap), MihomoShape(f.cap),
             {"password", "psk", "key"} \cup ServerWrapperFields(WrapperForCapability(f.cap)))

(* The native servers refuse a plan with a second profile.                  *)
Composable(core, fragments) ==
    core \in {"hysteria", "tuic"} => \A f, g \in fragments : f = g

ListenerOf(core, f) ==
    CASE core = "xray" -> XrayListener(f)
      [] core = "sing-box" -> SingBoxListener(f)
      [] core = "hysteria" -> HysteriaListener(f)
      [] core = "tuic" -> TuicListener(f)
      [] core = "mihomo" -> MihomoListener(f)
Compose(core, fragments) == {ListenerOf(core, f) : f \in fragments}

(* discover_config_users: the individual users of a configuration.          *)
DiscoverConfigUsers(core, file) ==
    IF core = "hysteria" THEN {} ELSE UNION {l.users : l \in file}

Individual(fragments) == {f \in fragments : PerUser(f.cap)}

(* discover_mihomo_config_users looks at the listeners the plan names, and  *)
(* fails when one of them is of another type.                               *)
Mistaken(fragments, file) ==
    \E f \in Individual(fragments), l \in file : f.name = l.name /\ MihomoKind(f.cap) # l.kind
DiscoverMihomoUsers(fragments, file) ==
    UNION {l.users : l \in {l \in file : \E f \in Individual(fragments) : f.name = l.name}}

(* Mutant: only missing users count as drift.                               *)
CompareMissing(expected, observed) == expected \subseteq observed

(* UserSyncObservation::compare.                                            *)
Compare(expected, observed) == expected = observed

(* observe_users: one answer for all individual users of a core.            *)
ObserveUsers(core, fragments, file) ==
    IF Individual(fragments) = {} THEN "synced"
    ELSE IF core = "mihomo" /\ Mistaken(fragments, file) THEN "failed"
    ELSE LET observed == IF core = "mihomo" THEN DiscoverMihomoUsers(fragments, file)
                         ELSE DiscoverConfigUsers(core, file)
             expected == UNION {f.users : f \in Individual(fragments)}
         IN  IF Compare(expected, observed) THEN "synced" ELSE "drifted"

(* default_runtime_preference, and legacy_runtime_preference for the rows   *)
(* of before there were preferences.                                        *)
DefaultRuntime(c) ==
    CASE c[1] \in {"shadowsocks2022", "any"} -> "sing-box"
      [] c[1] = "hysteria2" -> "hysteria"
      [] c[1] = "tuic" -> "tuic"
      [] OTHER -> "mihomo"
LegacyRuntime(c) ==
    IF c \in {<<"vless", "reality-xhttp">>, <<"vless", "reality-tcp">>}
    THEN "xray" ELSE DefaultRuntime(c)

(* A profile as default_profiles seeds it.                                  *)
DefaultRow(c, refs, port) ==
    [cap |-> c, on |-> FALSE, port |-> port, core |-> DefaultRuntime(c), refs |-> refs]

-----------------------------------------------------------------------------
(* The runtimes and the client *)

(* A runtime lets a proxy of a document in when both name the same          *)
(* protocol, transport, flow and wrapper, hold the same secrets, a public   *)
(* key being that of the private one, and the user is known where the       *)
(* protocol tells users apart.                                              *)
Counterpart(f) == IF f = "private_key" THEN "public_key" ELSE f
Accepts(listener, proxy) ==
    /\ listener.kind = (IF proxy.kind = "ss" THEN "shadowtls" ELSE proxy.kind)
    /\ listener.port = proxy.port
    /\ listener.layer = proxy.layer
    /\ listener.shape = proxy.shape
    /\ DOMAIN proxy.keys = {Counterpart(f) : f \in DOMAIN listener.keys}
    /\ \A f \in DOMAIN listener.keys : listener.keys[f] = proxy.keys[Counterpart(f)]
    /\ listener.kind \in {"vless", "trojan", "tuic", "mieru", "trusttunnel", "shadowquic"}
          => proxy.user \in listener.users
=============================================================================
