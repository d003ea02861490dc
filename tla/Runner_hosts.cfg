CONSTANTS
  Hosts = {h1, h2}
  Macs = {h1}
  NoHost = NoHost
  Guests = {h2}
SPECIFICATION FairSpec
INVARIANTS ServiceHasRunner OneAgent
PROPERTIES DeregisteredMeansGone StartGetsThere DeregisterClears
