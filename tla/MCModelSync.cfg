SPECIFICATION MCSpec
CONSTANTS
  hub = hub
  router = router
  v1 = v1
  v2 = v2
  v3 = v3
  nick = nick
  Title = Title
  x = x
  y = y
  VendorList <- const_VendorList
  Presets = {v3}
  NoVendor = NoVendor
  Years = {"2024"}
  Months = {"05"}
  Days = {"05", "13"}
  Dates = {"20240513"}
  Channels = {"preview"}
  Unwanted <- const_Unwanted
  Joined <- const_Joined
  Guessed <- const_Guessed
  Routers = {router}
  Hubs = {hub}
  Titled <- const_Titled
  Defaulted = {"name"}
  Default = byDefault
  Sources = {hub, router}
  Authority <- const_Authority
  Fields <- const_Fields
  Values = {x, y, byDefault}
  Unset = Unset
  Aliases <- const_Aliases
  Models <- const_Models
  Place <- const_Place
  Managed <- ManagedVendors
  Catalogs <- const_Catalogs
  Leftovers <- const_Leftovers
  NoDefinition = NoDefinition
  Syncs = {s1, s2}
  MaxReleases = 1
  MaxFailures = 2
PROPERTIES
  RemovalIsExplained
  WritesAreTold
  RegistryCatchesUp
  NamesResolve
