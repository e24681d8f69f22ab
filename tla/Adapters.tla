------------------------------ MODULE Adapters ------------------------------
(***************************************************************************)
(* What the four adapters (internal/infrastructure/provider/{midtrans,     *)
(* xendit,doku,ipaymu}) make of a provider's answer.                       *)
(*                                                                         *)
(* An answer is abstracted to what it says:                                *)
(*   a create request or a cancellation: "done", "bare" (done, but without *)
(*     a VA number or a QR string) or "refused";                           *)
(*   a query or a notification about a payment: "paid", "review" (captured *)
(*     or authorized, not yet accepted), "open", "expired", "cancelled",   *)
(*     "denied", a query also "refused" (the provider's error answer);     *)
(*   a payout or its query: "completed", "accepted", "failed", "other" (a  *)
(*     status the adapter does not know) or "refused".                     *)
(* Any answer to a request may also be "garbled": no JSON, which may come  *)
(* after the provider has done what it was asked.                          *)
(*                                                                         *)
(* The adapter returns "error", or "ok", or the status it has mapped.      *)
(***************************************************************************)

Providers == {"midtrans", "xendit", "doku", "ipaymu"}

(* The ports of the domain: payments and payouts; a gateway for payouts    *)
(* exists for two of the providers.                                        *)
PaymentOps == {"va", "qris", "cancel", "status"}
PayoutOps  == {"disburse", "payout_status"}
Callbacks  == {"callback", "payout_callback"}

Ops(p) == PaymentOps \cup {"callback"} \cup
          (IF p \in {"xendit", "doku"} THEN PayoutOps \cup {"payout_callback"} ELSE {})

PaymentCodes == {"paid", "review", "open", "expired", "cancelled", "denied"}
PayoutCodes  == {"completed", "accepted", "failed", "other"}

Codes(o) ==
    CASE o \in {"va", "qris"}   -> {"done", "bare", "refused", "garbled"}
      [] o = "cancel"           -> {"done", "refused", "garbled"}
      [] o = "status"           -> PaymentCodes \cup {"refused", "garbled"}
      [] o = "callback"         -> PaymentCodes
      [] o = "payout_callback"  -> PayoutCodes
      [] o \in PayoutOps         -> PayoutCodes \cup {"refused", "garbled"}

(* What the adapter may return. *)
Results == {"error", "ok", "paid", "pending", "expired", "cancelled", "failed",
            "completed", "processing"}

OkIf(b) == IF b THEN "ok" ELSE "error"

-----------------------------------------------------------------------------
(* Midtrans: charge and cancel look at the status code of the body, the VA *)
(* number may be missing, a query's error answer carries no status.        *)

MidtransVA(a)     == OkIf(a \in {"done", "bare"})
MidtransQRIS(a)   == OkIf(a \in {"done", "bare"})
(* Mutant: the answer to a cancellation is not looked at. *)
MidtransCancelUnchecked(a) == "ok"
MidtransCancel(a) == OkIf(a = "done")
MidtransStatus(a) ==
    IF a \in {"paid", "expired", "cancelled"} THEN a
    ELSE IF a = "open" THEN "pending" ELSE "failed"

-----------------------------------------------------------------------------
(* Xendit: an HTTP status from 400 on is an error of every call; a create  *)
(* answer without the number or the string is one too.                     *)

XenditVA(a)     == OkIf(a = "done")
XenditQRIS(a)   == OkIf(a = "done")
XenditCancel(a) == OkIf(a = "done")
XenditStatus(a) ==
    IF a = "refused" THEN "error"
    ELSE IF a \in {"paid", "expired", "cancelled"} THEN a
    ELSE IF a \in {"open", "review"} THEN "pending" ELSE "failed"
XenditDisburse(a) ==
    IF a = "refused" THEN "error"
    ELSE IF a = "accepted" THEN "processing"
    ELSE IF a = "other" THEN "pending" ELSE a

-----------------------------------------------------------------------------
(* DOKU: only the creation of a VA looks at the response code.  The other  *)
(* answers are decoded and believed; for a payout and a query an error     *)
(* answer has an unknown code, which is "failed".                          *)

DokuVA(a)     == OkIf(a = "done")
DokuQRIS(a)   == "ok"
DokuCancel(a) == "ok"
DokuStatus(a) ==
    IF a \in {"paid", "cancelled"} THEN a
    ELSE IF a = "open" THEN "pending" ELSE "failed"
DokuDisburse(a) ==
    IF a = "completed" THEN a
    ELSE IF a = "accepted" THEN "processing" ELSE "failed"

-----------------------------------------------------------------------------
(* iPaymu: the create requests look at the status of the body; a cancel    *)
(* call is refused by the adapter itself; a query reads the paid status,   *)
(* which is "unpaid" for an open payment and mapped like any unknown word. *)

IPaymuVA(a)     == OkIf(a \in {"done", "bare"})
IPaymuQRIS(a)   == OkIf(a \in {"done", "bare"})
IPaymuCancel(a) == "error"
IPaymuStatus(a) == IF a = "paid" THEN a ELSE "failed"
IPaymuEvent(a)  ==
    IF a \in {"paid", "expired", "cancelled"} THEN a
    ELSE IF a = "open" THEN "pending" ELSE "failed"

-----------------------------------------------------------------------------
(* The calls that end in the adapter before anything is sent: a bank the   *)
(* adapter has no channel for, and every cancellation at iPaymu.           *)
Unsent(p) ==
    CASE p = "xendit" -> {"va", "disburse"}
      [] p = "ipaymu" -> {"va", "cancel"}
      [] p \in {"midtrans", "doku"} -> {}

AlwaysUnsent(p) == IF p = "ipaymu" THEN {"cancel"} ELSE {}

(* The four functions that send a request: the body is decoded whatever    *)
(* the HTTP status (Xendit apart), and what is no JSON is an error.        *)
Decoded(a) == a # "garbled"

CreateVA(p, a) ==
    CASE p = "midtrans" -> MidtransVA(a) [] p = "xendit" -> XenditVA(a)
      [] p = "doku"     -> DokuVA(a)     [] p = "ipaymu" -> IPaymuVA(a)
CreateQRIS(p, a) ==
    CASE p = "midtrans" -> MidtransQRIS(a) [] p = "xendit" -> XenditQRIS(a)
      [] p = "doku"     -> DokuQRIS(a)     [] p = "ipaymu" -> IPaymuQRIS(a)
CancelPayment(p, a) ==
    CASE p = "midtrans" -> MidtransCancel(a) [] p = "xendit" -> XenditCancel(a)
      [] p = "doku"     -> DokuCancel(a)     [] p = "ipaymu" -> IPaymuCancel(a)
GetStatus(p, a) ==
    CASE p = "midtrans" -> MidtransStatus(a) [] p = "xendit" -> XenditStatus(a)
      [] p = "doku"     -> DokuStatus(a)     [] p = "ipaymu" -> IPaymuStatus(a)
ParseWebhook(p, a) == IF p = "ipaymu" THEN IPaymuEvent(a) ELSE GetStatus(p, a)
Disburse(p, a)     == IF p = "doku" THEN DokuDisburse(a) ELSE XenditDisburse(a)

Result(p, o, a) ==
    IF ~Decoded(a) THEN "error"
    ELSE CASE o = "va"       -> CreateVA(p, a)
           [] o = "qris"     -> CreateQRIS(p, a)
           [] o = "cancel"   -> CancelPayment(p, a)
           [] o = "status"   -> GetStatus(p, a)
           [] o = "callback" -> ParseWebhook(p, a)
           [] o \in PayoutOps \cup {"payout_callback"} -> Disburse(p, a)
=============================================================================
