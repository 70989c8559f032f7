SPECIFICATION Spec
CONSTANTS
  Handlers = {h1, h2}
  None = None
  Chats = {d1}
  Home = Home
  Puppet = Puppet
  identity_user_id = me
  app_user_id = app
  Guests = {}
  MaxDeeds = 3
  MaxFails = 1
  dev_soft_fail = FALSE
SYMMETRY Symmetry
INVARIANTS TypeOK InvitationServed MessageFindsUser
PROPERTIES OnlyUsersUnblock
