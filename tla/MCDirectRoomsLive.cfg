SPECIFICATION FairSpec
CONSTANTS
  Handlers = {h1}
  None = None
  Chats = {d1}
  Home = Home
  Puppet = Puppet
  identity_user_id = me
  app_user_id = app
  Guests = {guest}
  MaxDeeds = 2
  MaxFails = 2
  dev_soft_fail = FALSE
PROPERTIES EventsFlow
