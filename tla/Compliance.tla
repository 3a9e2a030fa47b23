---------------------------- MODULE Compliance ----------------------------
(***************************************************************************)
(* ComplianceService.Check and VendorValidator.ValidateSubmit: what they   *)
(* say of a vendor, given the fields it has filled in and its              *)
(* qualifications.  The item lists are sets; the passed items decide       *)
(* nothing and are left out, and so are the malformed credit codes and the *)
(* qualifications without a file, which the validators and binders let     *)
(* nobody store.                                                           *)
(***************************************************************************)
Required == {"company_name", "unified_social_credit_code", "contact_person",
             "contact_phone"}

Field == Required \cup {"legal_person"}

(* The types other than the first two make no difference to the check.     *)
QualificationType == {"BUSINESS_LICENSE", "BANK_ACCOUNT", "OTHER"}

QualificationStatus == {"PENDING", "VERIFIED", "REJECTED", "EXPIRED"}

(* ExpiryDate: none, in the future, within three months, past.             *)
Expiry == {"none", "later", "soon", "past"}

Qualification == [type : QualificationType, status : QualificationStatus, expiry : Expiry]

HasType(quals, type) == \E q \in quals : q.type = type

Checked(quals) == {q \in quals : q.type \in {"BUSINESS_LICENSE", "BANK_ACCOUNT"}}

-----------------------------------------------------------------------------
(* checkSingleQualification.                                               *)
Invalid(q) == q.status \in {"REJECTED", "EXPIRED"} \/ q.expiry = "past"

Doubtful(q) == q.status = "PENDING" \/ q.expiry = "soon"

HasLicense(quals) == HasType(quals, "BUSINESS_LICENSE")

(* checkBasicInfo and checkQualifications.                                 *)
FailedItems(filled, quals) ==
  (Required \ filled)
    \cup (IF HasLicense(quals) THEN {} ELSE {"license missing"})
    \cup (IF \E q \in Checked(quals) : Invalid(q) THEN {"qualification"} ELSE {})

Unverified(quals) == {q \in quals : q.status # "VERIFIED"}

WarningItems(filled, quals) ==
  ({"legal_person"} \ filled)
    \cup (IF HasType(quals, "BANK_ACCOUNT") THEN {} ELSE {"bank account missing"})
    \cup (IF \E q \in Checked(quals) : Doubtful(q) THEN {"qualification"} ELSE {})
    \cup (IF Unverified(quals) \notin {{}, quals} THEN {"not all verified"} ELSE {})

IsCompliant(filled, quals) == FailedItems(filled, quals) = {}

(* ValidateSubmit, but for the status of the vendor.                       *)
MaySubmit(filled, quals) == Required \subseteq filled /\ HasLicense(quals)

(* The vendor passes without a remark.                                     *)
IsClean(filled, quals) == IsCompliant(filled, quals) /\ WarningItems(filled, quals) = {}
=============================================================================
