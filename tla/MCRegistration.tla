--------------------------- MODULE MCRegistration ---------------------------
EXTENDS Registration, TLC

CONSTANTS p1, p2, n1, n2, k1, k2

Ops(kinds, person, phones, referral, pin, number) ==
  [kind : kinds, person : {person}, phone : phones, referral : {referral}, pin : {pin},
   number : {number}]

MCOperations ==
  Ops({"registerUser", "aadhaarVerifyOtp"}, p1, {n1}, "valid", "sixDigits", k1)
  \cup Ops({"aadhaarVerifyOtp"}, p2, {n1}, "valid", "sixDigits", k1)
  \cup Ops({"aadhaarVerifyOtp"}, p2, {n1}, "none", "other", k1)
  \cup Ops({"registerUser"}, p2, {n1}, "unknown", "sixDigits", k1)
  \cup Ops({"createVirtualAccount"}, p1, {n1, n2}, "none", "sixDigits", k1)
  \cup Ops({"validateUserCardAssignment", "createKitNumber"}, p1, {n1}, "none", "other", k1)
  \cup Ops({"populateKitNumbersFromJSON"}, p1, {n1}, "none", "other", k2)

MCSymmetry == Permutations(Tasks \ Faulty)
=============================================================================
