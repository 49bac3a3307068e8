SPECIFICATION Spec
CONSTANTS
  ann = ann
  bob = bob
  phone = phone
  boss = boss
  Users <- MCUsers
  Accounts <- MCAccounts
  Admins <- MCAdmins
  Owner <- MCOwner
  Nobody = Nobody
  LinkTime = 1
  ConfirmTime = 1
  MaxUpdates = 3
  MaxEvents = 2
INVARIANTS
  ConfirmedOnce
PROPERTIES
  AddressOfOwner
  LinkOnce
  UpdatesPass
CHECK_DEADLOCK FALSE
