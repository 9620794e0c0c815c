\* All WiFi and LED settings, the firmware's five reconnect attempts.
CONSTANTS
    MaxReconnects = 5
SPECIFICATION Spec
INVARIANT TypeOK AbandonedUploadArmed
PROPERTY EthLedEventuallyOff LongPressRestarts
