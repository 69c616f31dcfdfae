-------------------------------- MODULE MCWriter --------------------------------
(***************************************************************************)
(* Writer leases: acquire, renew, release and fence, with an operation of   *)
(* an untyped kind and another session between them.  Every identifier is   *)
(* open to every contract, so identifiers are interchangeable.              *)
(***************************************************************************)
EXTENDS SessionAuthority, TLC

WriterContracts ==
    {<<"writer-attachment-acquire", 1>>, <<"writer-lease-renew", 1>>,
     <<"writer-release", 1>>, <<"writer-force-fence", 1>>,
     <<"writer-force-fence", 2>>, <<"atomic-crash-capture", 1>>,
     <<"generic", 1>>, <<"foreign", 1>>}

WriterOffers == [i \in OpId |-> WriterContracts]

AnyFleet == GatedContracts

Careful == Promises

Identifiers == Permutations(OpId)

================================================================================
