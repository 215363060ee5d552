--------------------------- MODULE MCCertificate ----------------------------
(* Instances of CertificateWait for TLC. *)
EXTENDS CertificateWait

TwoNames == <<"webhook-cert", "metrics-certs">>
OneName == <<"webhook-cert">>
=============================================================================
