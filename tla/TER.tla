--------------------------------- MODULE TER ---------------------------------
(***************************************************************************)
(* Transaction results of src/mtchain/protocol/TER.h.  A result is named   *)
(* by its enumerator; TERValue gives the value enum TER assigns it (each   *)
(* class starts at an explicit value and counts up from there), for the    *)
(* results the modelled transactors return.  The two class tests the      *)
(* transactor uses compare those values, as the header's functions do.     *)
(***************************************************************************)
EXTENDS Integers

TERValue ==
    [ telLOCAL_ERROR |-> -399,
      temMALFORMED |-> -299, temBAD_AMOUNT |-> -298, temBAD_EXPIRATION |-> -296,
      temBAD_SEQUENCE |-> -284, temBAD_SIGNATURE |-> -283, temDST_IS_SRC |-> -280,
      temINVALID_FLAG |-> -277, temBAD_SIGNER |-> -273,
      tefFAILURE |-> -199, tefBAD_LEDGER |-> -195,
      terRETRY |-> -99, terINSUF_FEE_B |-> -97, terNO_ACCOUNT |-> -96,
      tesSUCCESS |-> 0,
      tecCLAIM |-> 100, tecUNFUNDED_PAYMENT |-> 104, tecDIR_FULL |-> 121, tecNO_DST |-> 124,
      tecUNFUNDED |-> 129, tecNO_TARGET |-> 138, tecNO_PERMISSION |-> 139,
      tecNO_ENTRY |-> 140, tecINSUFFICIENT_RESERVE |-> 141, tecDST_TAG_NEEDED |-> 143 ]

isTesSuccess(x) == TERValue[x] = TERValue["tesSUCCESS"]
isTecClaim(x) == TERValue[x] >= TERValue["tecCLAIM"]

=============================================================================
