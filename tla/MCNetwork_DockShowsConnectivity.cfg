\* DockShowsConnectivity over all settings: setup() and handleLoop() against the ETH events.
CONSTANTS
    MaxReconnects = 5
SPECIFICATION Spec
PROPERTY DockShowsConnectivity
