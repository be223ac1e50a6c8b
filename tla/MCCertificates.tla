---------------------------- MODULE MCCertificates ----------------------------
(***************************************************************************)
(* CertificateReloader with three versions of the pair: renewals with a    *)
(* new key, with the same key, and a pair that does not match.             *)
(***************************************************************************)
EXTENDS CertificateReloader

MCKeys == {1, 2, 3}
Good(key) == [crt |-> key, key |-> key]
Bad == [crt |-> 1, key |-> 2]

MCHistories ==
    { <<Good(1), Good(2), Good(3)>>,      \* cert-manager, rotationPolicy: Always
      <<Good(1), Good(1), Good(2)>>,      \* the first renewal keeps the key
      <<Good(1), Bad, Good(3)>>,
      <<Bad, Good(1), Good(2)>>,
      <<Good(1), Good(2), Bad>> }
=============================================================================
