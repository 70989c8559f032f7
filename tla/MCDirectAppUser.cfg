SPECIFICATION Spec
CONSTANTS
  Handlers = {h1, h2}
  None = None
  Chats = {d1}
  Home = Home
  Puppet = Puppet
  identity_user_id = me
  app_user_id = app
  Guests = {guest}
  MaxDeeds = 1
  MaxFails = 0
  dev_soft_fail = FALSE
INVARIANTS AppUserManages
