SPECIFICATION Spec
CONSTANTS
  ManagedAuth <- MCManagedAuth
  Secrets = {secret, another}
  Broken = Broken
  NoForm = NoForm
  MaxEdits = 2
PROPERTY SpeedTestOff
