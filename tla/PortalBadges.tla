---------------------------- MODULE PortalBadges ----------------------------
(***************************************************************************)
(* The encryption badges of the portal's settings page: what the gateway      *)
(* does with its TLS settings (auth.LoadTLSConfig), what /api/settings says   *)
(* of them (handleSettings) and what the page makes of that                   *)
(* (renderTlsStatusBadge, renderMtlsStatusBadge).                            *)
(***************************************************************************)

\* TLS_CERT_PATH, TLS_KEY_PATH, CLIENT_CA_PATH are set; TLS_TERMINATED_AT_PROXY;
\* MTLS_MODE, which tells what the ingress asks of clients ("" means "off").
Config == [cert : BOOLEAN, key : BOOLEAN, ca : BOOLEAN, proxy : BOOLEAN,
           mtls : {"", "off", "optional", "required"}]

\* LoadTLSConfig: the gateway speaks TLS, and requires client certificates.
ServesTLS(c) == c.cert /\ c.key
RequiresClientCert(c) == ServesTLS(c) /\ c.ca

\* Mutation: a client CA does not override MTLS_MODE.
MtlsModeIgnoresCA(c) == c.mtls

MtlsMode(c) == IF c.ca THEN "pod" ELSE c.mtls

\* handleSettings.
Settings(c) ==
    [tls_mode |-> IF c.cert THEN "pod" ELSE IF c.proxy THEN "edge" ELSE "none",
     tls_enabled |-> c.cert \/ c.proxy,
     mtls_mode |-> MtlsMode(c),
     mtls_enabled |-> c.ca \/ c.mtls \in {"optional", "required"}]

\* The badges: the mode, or what an answer without one amounts to.  (For answers of
\* older gateways, without tls_enabled and mtls_enabled, the page looks at tls_cert_path
\* and client_ca_path; handleSettings sends both fields always.)
TlsBadge(data) ==
    LET mode == IF data.tls_mode # "" THEN data.tls_mode
                ELSE IF data.tls_enabled THEN "pod" ELSE "none"
    IN  IF mode = "pod" THEN "ENCRYPTED (HTTPS)"
        ELSE IF mode = "edge" THEN "ENCRYPTED (TLS at ingress)" ELSE "UNENCRYPTED (HTTP)"

MtlsBadge(data) ==
    LET mode == IF data.mtls_mode # "" THEN data.mtls_mode
                ELSE IF data.mtls_enabled THEN "pod" ELSE "off"
    IN  IF mode = "required" THEN "mTLS REQUIRED"
        ELSE IF mode = "optional" THEN "mTLS OPTIONAL"
        ELSE IF mode = "pod" THEN "mTLS ENABLED (pod)" ELSE "mTLS DISABLED"

\* Both halves of the key pair, and a client CA only with TLS.
Consistent(c) == (c.cert <=> c.key) /\ (c.ca => c.cert)

\* The badges of an answer made under settings c agree with what the gateway does.
Truthful(c, data) ==
    /\ TlsBadge(data) = "ENCRYPTED (HTTPS)" <=> ServesTLS(c)
    /\ TlsBadge(data) = "UNENCRYPTED (HTTP)" <=> ~ ServesTLS(c) /\ ~ c.proxy
    /\ MtlsBadge(data) = "mTLS ENABLED (pod)" <=> RequiresClientCert(c)
    /\ MtlsBadge(data) = "mTLS DISABLED" <=> ~ RequiresClientCert(c) /\ c.mtls \in {"", "off"}
=============================================================================
