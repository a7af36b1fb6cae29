\* A dashboard that connects is not told the relays' states.
CONSTANTS
    Dashboards = {c1, c2}
    Devices = {fan_relay}
    QueueLimit = 2
    MaxSent = 2
SPECIFICATION Spec
INVARIANT DashboardShowsRelays
